---- MODULE Spec2Model ----
(***************************************************************************)
(* QTextPadWindow (src/qtextpadwindow.cpp): the document state of one      *)
(* editor window and its undo stack.                                       *)
(*                                                                         *)
(* The handlers of the window are sequential programs over the window's    *)
(* fields, so each handler is an operator from a window record (and the    *)
(* handler's inputs: arguments, dialog answers) to the window record it    *)
(* leaves behind, its return value and the dialogs it showed.  One action  *)
(* per handler applies that operator to the state variables.               *)
(***************************************************************************)
EXTENDS Integers, Sequences, FiniteSets, TLC

(***************************************************************************)
(* Bounds of the model.                                                    *)
(***************************************************************************)
\* largest number of commands kept on m_undoStack
MaxHist == 2
\* largest number of commands kept on m_undoStack where the handlers are
\* observed (SpecFiles)
MaxHistFiles == 1
MaxBytes == 4
MaxBlock == 3

(***************************************************************************)
(* Program constants.                                                      *)
(***************************************************************************)
LARGE_FILE_SIZE == 10 * 1024 * 1024
DECODE_BLOCK_SIZE == 16 * 1024

CROnly == "CROnly"
LFOnly == "LFOnly"
CRLF == "CRLF"
LineEndingModes == {CROnly, LFOnly, CRLF}

\* QMessageBox answers
Yes == "Yes"
No == "No"
Cancel == "Cancel"

\* SyntaxTextEdit::nullSyntax(): the invalid definition, shown as Plain Text
nullSyntax == "null"
Syntaxes == {nullSyntax, "Python", "Troff"}

\* no action of an action group is checked
NoAction == "none"

\* QString::null / an empty QString, for paths: a path is the sequence of
\* its components
NullPath == << >>

(***************************************************************************)
(* KCharsets::codecForName: the names it resolves, each with the name()    *)
(* of the codec it resolves to.  Any other name is invalid (ok = false).   *)
(***************************************************************************)
CodecNames == {"UTF-8", "ISO-8859-1", "latin1"}
\* the explicit encodings given to loadDocumentFrom: none, an alias of a
\* codec, a name KCharsets does not know
LoadEncodings == {"", "latin1", "bogus"}

codecForName(name) ==
    [ok |-> name \in CodecNames,
     codec |-> CASE name = "UTF-8" -> "UTF-8"
                 [] name = "ISO-8859-1" -> "ISO-8859-1"
                 [] name = "latin1" -> "ISO-8859-1"
                 [] OTHER -> "ISO-8859-1"]

\* the codec names listed in the Encoding menu (populateEncodingMenu)
MenuEncodings == {"UTF-8", "ISO-8859-1"}

(***************************************************************************)
(* The files on disk.  saveDocumentTo writes nothing, so the disk never    *)
(* changes.  A file is what loadDocumentFrom observes of it: whether it    *)
(* opens, its size() as the large-file gate reads it, what                 *)
(* FileDetection::detect reports for its first bytes, the bytes it holds   *)
(* (a short stand-in for the content, whatever the size), and the two      *)
(* syntax lookups.                                                         *)
(***************************************************************************)
P_report == <<"docs", "report.txt">>
P_idle == <<"docs", "idle3.6">>
P_big == <<"man", "big.1">>
P_missing == <<"docs", "missing.txt">>
Paths == {P_report, P_idle, P_big, P_missing}

File(path) ==
    CASE path = P_report ->
           [exists |-> TRUE, size |-> LARGE_FILE_SIZE, lineEndings |-> LFOnly,
            textCodec |-> "UTF-8", bomOffset |-> 3,
            bytes |-> <<239, 187, 191, 195, 169>>,
            magic |-> nullSyntax, byName |-> nullSyntax]
      [] path = P_idle ->
           [exists |-> TRUE, size |-> 1, lineEndings |-> CRLF,
            textCodec |-> "ISO-8859-1", bomOffset |-> 0, bytes |-> <<97>>,
            magic |-> "Python", byName |-> "Troff"]
      [] path = P_big ->
           [exists |-> TRUE, size |-> LARGE_FILE_SIZE + 1, lineEndings |-> CROnly,
            textCodec |-> "UTF-8", bomOffset |-> 0, bytes |-> << >>,
            magic |-> nullSyntax, byName |-> "Troff"]
      [] OTHER ->
           [exists |-> FALSE, size |-> 0, lineEndings |-> LFOnly,
            textCodec |-> "UTF-8", bomOffset |-> 0, bytes |-> << >>,
            magic |-> nullSyntax, byName |-> nullSyntax]

\* QFileInfo::fileName(): the last component of the path
fileName(path) == IF path = NullPath THEN "" ELSE path[Len(path)]

(***************************************************************************)
(* QTextDecoder::toUnicode for the two codecs, on a decoder that holds in  *)
(* remaining the bytes of a sequence the buffers so far left incomplete.   *)
(* ISO-8859-1 maps every byte to the character of the same number.  UTF-8  *)
(* maps a byte below 128 to itself and a lead byte with its continuation   *)
(* bytes (128..191) to the code point they encode; a byte that fits        *)
(* nowhere becomes the replacement character; a sequence cut off by the    *)
(* end of the buffer is kept for the next call.                            *)
(***************************************************************************)
ReplacementCharacter == 65533

\* the number of bytes of the UTF-8 sequence that starts with lead
utf8_length(lead) ==
    CASE lead < 128 -> 1
      [] lead \in 192..223 -> 2
      [] lead \in 224..239 -> 3
      [] lead \in 240..247 -> 4
      [] OTHER -> 0

isContinuation(byte) == byte \in 128..191

RECURSIVE utf8_codePoint(_, _)
utf8_codePoint(acc, cont) ==
    IF cont = << >> THEN acc
    ELSE utf8_codePoint(64 * acc + (cont[1] - 128), Tail(cont))

RECURSIVE utf8_toUnicode(_)
utf8_toUnicode(bytes) ==
    IF bytes = << >> THEN [out |-> << >>, remaining |-> << >>]
    ELSE
      LET lead == bytes[1]
          n == utf8_length(lead)
          have == IF Len(bytes) < n THEN Len(bytes) ELSE n
          contOk == \A i \in 2..have : isContinuation(bytes[i])
      IN  IF n = 0 \/ ~contOk
          THEN LET r == utf8_toUnicode(Tail(bytes))
               IN  [out |-> <<ReplacementCharacter>> \o r.out,
                    remaining |-> r.remaining]
          ELSE IF Len(bytes) < n
          THEN [out |-> << >>, remaining |-> bytes]
          ELSE LET first == CASE n = 1 -> lead
                              [] n = 2 -> lead - 192
                              [] n = 3 -> lead - 224
                              [] n = 4 -> lead - 240
                   r == utf8_toUnicode(SubSeq(bytes, n + 1, Len(bytes)))
               IN  [out |-> <<utf8_codePoint(first, SubSeq(bytes, 2, n))>> \o r.out,
                    remaining |-> r.remaining]

decoder_toUnicode(codec, remaining, buffer) ==
    IF codec = "UTF-8" THEN utf8_toUnicode(remaining \o buffer)
    ELSE [out |-> buffer, remaining |-> << >>]

\* toUnicode of a decoder just made
toUnicode(codec, bytes) == decoder_toUnicode(codec, << >>, bytes).out

(***************************************************************************)
(* The state of the window.                                                *)
(***************************************************************************)
VARIABLES
    m_textEncoding,     \* QString m_textEncoding
    encodingButton,     \* text of m_encodingButton
    encodingChecked,    \* the checked action of m_encodingActions
    m_lineEndingMode,   \* LineEndingMode m_lineEndingMode
    crlfLabel,          \* text of m_crlfLabel
    lineEndingChecked,  \* the checked action of m_lineEndingActions
    syntax,             \* the editor's syntax definition
    syntaxButton,       \* text of m_syntaxButton
    syntaxChecked,      \* the checked action of m_syntaxActions
    m_openFilename,     \* QString m_openFilename
    m_documentTitle,    \* QString m_documentTitle
    windowTitle,        \* QWidget::windowTitle
    text,               \* the editor's content (character codes)
    docUndo,            \* QTextDocument's undo stack: the contents to go back to
    docRedo,            \* QTextDocument's redo stack: the contents to go forward to
    commands,           \* m_undoStack: the command list
    index,              \* m_undoStack: index()
    clean_index,        \* m_undoStack: cleanIndex(), -1 when the clean state is lost
    undoEnabled,        \* undoAction->isEnabled()
    redoEnabled,        \* redoAction->isEnabled()
    reloadEnabled,      \* m_reloadAction->isEnabled()
    win32,              \* the build: _WIN32 defined or not
    closed,             \* the close event was accepted
    decode,             \* the decode loop of loadDocumentFrom, for the
                        \* specification that runs it block by block
    synced,             \* the content, encoding and line endings as the last
                        \* load, save or new document left them
    ev                  \* the last handler run: its name, result and dialogs

winVars == <<m_textEncoding, encodingButton, encodingChecked, m_lineEndingMode,
             crlfLabel, lineEndingChecked, syntax, syntaxButton, syntaxChecked,
             m_openFilename, m_documentTitle, windowTitle, text, docUndo, docRedo,
             commands, index, clean_index, undoEnabled, redoEnabled,
             reloadEnabled>>

vars == <<winVars, win32, closed, decode, synced, ev>>

\* the window as one record, the form the handlers work on
Win ==
    [m_textEncoding |-> m_textEncoding, encodingButton |-> encodingButton,
     encodingChecked |-> encodingChecked, m_lineEndingMode |-> m_lineEndingMode,
     crlfLabel |-> crlfLabel, lineEndingChecked |-> lineEndingChecked,
     syntax |-> syntax, syntaxButton |-> syntaxButton,
     syntaxChecked |-> syntaxChecked, m_openFilename |-> m_openFilename,
     m_documentTitle |-> m_documentTitle, windowTitle |-> windowTitle,
     text |-> text, docUndo |-> docUndo, docRedo |-> docRedo,
     commands |-> commands, index |-> index, clean_index |-> clean_index,
     undoEnabled |-> undoEnabled, redoEnabled |-> redoEnabled,
     reloadEnabled |-> reloadEnabled]

\* the window becomes w
Becomes(w) ==
    /\ m_textEncoding' = w.m_textEncoding
    /\ encodingButton' = w.encodingButton
    /\ encodingChecked' = w.encodingChecked
    /\ m_lineEndingMode' = w.m_lineEndingMode
    /\ crlfLabel' = w.crlfLabel
    /\ lineEndingChecked' = w.lineEndingChecked
    /\ syntax' = w.syntax
    /\ syntaxButton' = w.syntaxButton
    /\ syntaxChecked' = w.syntaxChecked
    /\ m_openFilename' = w.m_openFilename
    /\ m_documentTitle' = w.m_documentTitle
    /\ windowTitle' = w.windowTitle
    /\ text' = w.text
    /\ docUndo' = w.docUndo
    /\ docRedo' = w.docRedo
    /\ commands' = w.commands
    /\ index' = w.index
    /\ clean_index' = w.clean_index
    /\ undoEnabled' = w.undoEnabled
    /\ redoEnabled' = w.redoEnabled
    /\ reloadEnabled' = w.reloadEnabled

\* the window starts as w
Starts(w) ==
    /\ m_textEncoding = w.m_textEncoding
    /\ encodingButton = w.encodingButton
    /\ encodingChecked = w.encodingChecked
    /\ m_lineEndingMode = w.m_lineEndingMode
    /\ crlfLabel = w.crlfLabel
    /\ lineEndingChecked = w.lineEndingChecked
    /\ syntax = w.syntax
    /\ syntaxButton = w.syntaxButton
    /\ syntaxChecked = w.syntaxChecked
    /\ m_openFilename = w.m_openFilename
    /\ m_documentTitle = w.m_documentTitle
    /\ windowTitle = w.windowTitle
    /\ text = w.text
    /\ docUndo = w.docUndo
    /\ docRedo = w.docRedo
    /\ commands = w.commands
    /\ index = w.index
    /\ clean_index = w.clean_index
    /\ undoEnabled = w.undoEnabled
    /\ redoEnabled = w.redoEnabled
    /\ reloadEnabled = w.reloadEnabled

(***************************************************************************)
(* Setters.                                                                *)
(***************************************************************************)
\* mutant: a change of the syntax is put on the undo stack
setSyntax_pushed(w, syn) ==
    LET w1 == [w EXCEPT !.syntax = syn,
                        !.syntaxButton = IF syn # nullSyntax THEN syn ELSE "Plain Text",
                        !.syntaxChecked = IF syn \in Syntaxes THEN syn ELSE @]
        cmd == [kind |-> "lineEnding", old |-> w.m_lineEndingMode,
                new |-> w.m_lineEndingMode]
        w2 == [w1 EXCEPT !.commands = Append(SubSeq(w1.commands, 1, w1.index), cmd),
                         !.index = w1.index + 1]
    IN  w2

setSyntax(w, syn) ==
    [w EXCEPT !.syntax = syn,
              !.syntaxButton = IF syn # nullSyntax THEN syn ELSE "Plain Text",
              !.syntaxChecked = IF syn \in Syntaxes THEN syn ELSE @]

\* mutant: a name no codec knows is shown as invalid but not recorded
setEncoding_rejectsInvalid(w, codecName) ==
    [w EXCEPT !.m_textEncoding = IF codecForName(codecName).ok THEN codecName ELSE @,
              !.encodingChecked = IF codecName \in MenuEncodings
                                  THEN codecName ELSE NoAction,
              !.encodingButton = IF codecForName(codecName).ok
                                 THEN <<codecName>>
                                 ELSE <<"Invalid", codecName>>]

\* mutant: setting the encoding drops the syntax
setEncoding_clearsSyntax(w, codecName) ==
    [w EXCEPT !.m_textEncoding = codecName,
              !.encodingChecked = IF codecName \in MenuEncodings
                                  THEN codecName ELSE NoAction,
              !.encodingButton = IF codecForName(codecName).ok
                                 THEN <<codecName>>
                                 ELSE <<"Invalid", codecName>>,
              !.syntax = nullSyntax,
              !.syntaxButton = "Plain Text",
              !.syntaxChecked = nullSyntax]

setEncoding(w, codecName) ==
    [w EXCEPT !.m_textEncoding = codecName,
              !.encodingChecked = IF codecName \in MenuEncodings
                                  THEN codecName ELSE NoAction,
              !.encodingButton = IF codecForName(codecName).ok
                                 THEN <<codecName>>
                                 ELSE <<"Invalid", codecName>>]

\* mutant: the line-ending actions are left as they are
setLineEndingMode_actionsKept(w, mode) ==
    [w EXCEPT !.m_lineEndingMode = mode,
              !.crlfLabel = CASE mode = CROnly -> "CR"
                              [] mode = LFOnly -> "LF"
                              [] mode = CRLF -> "CRLF",
              !.lineEndingChecked = IF @ = NoAction THEN mode ELSE @]

setLineEndingMode(w, mode) ==
    [w EXCEPT !.m_lineEndingMode = mode,
              !.crlfLabel = CASE mode = CROnly -> "CR"
                              [] mode = LFOnly -> "LF"
                              [] mode = CRLF -> "CRLF",
              !.lineEndingChecked = mode]

isDocumentModified(w) == ~(w.clean_index = w.index)

\* the title is a sequence of its pieces; the n-dash is written "-"
updateTitle(w) ==
    [w EXCEPT !.windowTitle =
        IF isDocumentModified(w)
        THEN <<"* ", w.m_documentTitle, " - qtextpad">>
        ELSE <<w.m_documentTitle, " - qtextpad">>]

(***************************************************************************)
(* The editor's document (QPlainTextEdit / QTextDocument).                 *)
(***************************************************************************)
\* QTextDocument::clearUndoRedoStacks()
clearUndoRedoStacks(w) == [w EXCEPT !.docUndo = << >>, !.docRedo = << >>]

\* QPlainTextEdit::clear(): no text, no undo history, no undo notification
editorClear(w) == [w EXCEPT !.text = << >>, !.docUndo = << >>, !.docRedo = << >>]

\* QPlainTextEdit::setPlainText(): new text, no undo history, no undo
\* notification
setPlainText(w, t) == [w EXCEPT !.text = t, !.docUndo = << >>, !.docRedo = << >>]

\* QTextDocument::undo(): nothing happens on an empty undo stack
documentUndo(w) ==
    IF w.docUndo = << >> THEN w
    ELSE [w EXCEPT !.text = w.docUndo[Len(w.docUndo)],
                   !.docUndo = SubSeq(w.docUndo, 1, Len(w.docUndo) - 1),
                   !.docRedo = Append(w.docRedo, w.text)]

\* QTextDocument::redo(): nothing happens on an empty redo stack
documentRedo(w) ==
    IF w.docRedo = << >> THEN w
    ELSE [w EXCEPT !.text = w.docRedo[Len(w.docRedo)],
                   !.docRedo = SubSeq(w.docRedo, 1, Len(w.docRedo) - 1),
                   !.docUndo = Append(w.docUndo, w.text)]

\* an edit made in the editor: the document records it on its undo stack
\* and drops what could be redone
documentEdit(w, t) ==
    [w EXCEPT !.text = t, !.docUndo = Append(w.docUndo, w.text), !.docRedo = << >>]

(***************************************************************************)
(* The undo commands (undocommands.h).                                     *)
(***************************************************************************)
TextEditorUndoCommand(w) == [kind |-> "text", old |-> "", new |-> ""]
ChangeEncodingCommand(w, encoding) ==
    [kind |-> "encoding", old |-> w.m_textEncoding, new |-> encoding]
ChangeLineEndingCommand(w, mode) ==
    [kind |-> "lineEnding", old |-> w.m_lineEndingMode, new |-> mode]

\* QUndoCommand::redo() of each command
CommandRedo(w, cmd) ==
    CASE cmd.kind = "text" -> documentRedo(w)
      [] cmd.kind = "encoding" -> setEncoding(w, cmd.new)
      [] cmd.kind = "lineEnding" -> setLineEndingMode(w, cmd.new)

\* QUndoCommand::undo() of each command
CommandUndo(w, cmd) ==
    CASE cmd.kind = "text" -> documentUndo(w)
      [] cmd.kind = "encoding" -> setEncoding(w, cmd.old)
      [] cmd.kind = "lineEnding" -> setLineEndingMode(w, cmd.old)

(***************************************************************************)
(* m_undoStack (QUndoStack), with the slots connected to its signals:      *)
(* canUndoChanged -> undoAction->setEnabled, canRedoChanged ->             *)
(* redoAction->setEnabled, cleanChanged -> updateTitle.                    *)
(***************************************************************************)
\* mutant: cleanChanged is not connected to updateTitle
QUndoStack_setIndex_titleNotUpdated(w, idx, clean) ==
    LET w1 == IF idx # w.index
              THEN [w EXCEPT !.index = idx,
                             !.undoEnabled = idx > 0,
                             !.redoEnabled = idx < Len(w.commands)]
              ELSE w
    IN  IF clean THEN [w1 EXCEPT !.clean_index = w1.index] ELSE w1

\* mutant: canUndoChanged and canRedoChanged are not connected to the
\* actions
QUndoStack_setIndex_actionsNotUpdated(w, idx, clean) ==
    LET was_clean == w.index = w.clean_index
        w1 == IF idx # w.index THEN [w EXCEPT !.index = idx] ELSE w
        w2 == IF clean THEN [w1 EXCEPT !.clean_index = w1.index] ELSE w1
        is_clean == w2.index = w2.clean_index
    IN  IF is_clean # was_clean THEN updateTitle(w2) ELSE w2

QUndoStack_setIndex(w, idx, clean) ==
    LET was_clean == w.index = w.clean_index
        w1 == IF idx # w.index
              THEN [w EXCEPT !.index = idx,
                             !.undoEnabled = idx > 0,
                             !.redoEnabled = idx < Len(w.commands)]
              ELSE w
        w2 == IF clean THEN [w1 EXCEPT !.clean_index = w1.index] ELSE w1
        is_clean == w2.index = w2.clean_index
    IN  IF is_clean # was_clean THEN updateTitle(w2) ELSE w2

\* mutant: a push that keeps the commands after the index
QUndoStack_push_keepsUndone(w, cmd) ==
    LET w1 == CommandRedo(w, cmd)
        w3 == [w1 EXCEPT !.commands = Append(w1.commands, cmd)]
    IN  QUndoStack_setIndex(w3, w3.index + 1, FALSE)

\* mutant: a push that drops the undone commands but keeps the clean index
QUndoStack_push_keepsClean(w, cmd) ==
    LET w1 == CommandRedo(w, cmd)
        w2 == [w1 EXCEPT !.commands = SubSeq(w1.commands, 1, w1.index)]
        w3 == [w2 EXCEPT !.commands = Append(w2.commands, cmd)]
    IN  QUndoStack_setIndex(w3, w3.index + 1, FALSE)

QUndoStack_push(w, cmd) ==
    LET w1 == CommandRedo(w, cmd)
        w2 == [w1 EXCEPT !.commands = SubSeq(w1.commands, 1, w1.index),
                         !.clean_index = IF w1.clean_index > w1.index
                                         THEN -1 ELSE w1.clean_index]
        w3 == [w2 EXCEPT !.commands = Append(w2.commands, cmd)]
    IN  QUndoStack_setIndex(w3, w3.index + 1, FALSE)

\* mutant: an undo with nothing to undo marks the stack clean
QUndoStack_undo_cleansAtBottom(w) ==
    IF w.index = 0 THEN QUndoStack_setIndex(w, 0, TRUE)
    ELSE QUndoStack_setIndex(CommandUndo(w, w.commands[w.index]), w.index - 1, FALSE)

QUndoStack_undo(w) ==
    IF w.index = 0 THEN w
    ELSE QUndoStack_setIndex(CommandUndo(w, w.commands[w.index]), w.index - 1, FALSE)

QUndoStack_redo(w) ==
    IF w.index = Len(w.commands) THEN w
    ELSE QUndoStack_setIndex(CommandRedo(w, w.commands[w.index + 1]), w.index + 1, FALSE)

QUndoStack_setClean(w) == QUndoStack_setIndex(w, w.index, TRUE)

\* mutant: a clear that leaves the commands where they are
QUndoStack_clear_keepsCommands(w) == w

QUndoStack_clear(w) ==
    IF w.commands = << >> THEN w
    ELSE LET was_clean == w.index = w.clean_index
             w1 == [w EXCEPT !.commands = << >>, !.index = 0, !.clean_index = 0,
                             !.undoEnabled = FALSE, !.redoEnabled = FALSE]
         IN  IF ~was_clean THEN updateTitle(w1) ELSE w1

\* mutant: the command is run but never pushed
addUndoCommand_notPushed(w, cmd) == CommandRedo(w, cmd)

addUndoCommand(w, cmd) == QUndoStack_push(w, cmd)

(***************************************************************************)
(* The handlers.  Each yields the window it leaves (w), its return value   *)
(* (ret, TRUE for a void handler that ran to its end) and the dialogs it   *)
(* showed, in order (asked).                                               *)
(***************************************************************************)
Result(w, ret, asked) == [w |-> w, ret |-> ret, asked |-> asked]

\* saveDocumentTo: "TODO: Encode and save to file"
saveDocumentTo(filename) == TRUE

(***************************************************************************)
(* The decode loop of loadDocumentFrom: file.seek(bomOffset), a decoder    *)
(* of the codec, then a block read and decoded per turn until a read       *)
(* yields nothing.  The state of the loop is the file position, the        *)
(* decoder (what it holds of an incomplete sequence) and the pieces.       *)
(***************************************************************************)
\* QFile::read(maxSize) at position pos
file_read(bytes, pos, maxSize) ==
    SubSeq(bytes, pos + 1,
           IF pos + maxSize < Len(bytes) THEN pos + maxSize ELSE Len(bytes))

decodeStart(codec, bytes, bomOffset, blockSize) ==
    [pc |-> "loop", codec |-> codec, bytes |-> bytes, bomOffset |-> bomOffset,
     blockSize |-> blockSize, pos |-> bomOffset, remaining |-> << >>,
     pieces |-> << >>]

\* mutant: every block is decoded by a decoder of its own
decodeStep_freshDecoder(d) ==
    LET buffer == file_read(d.bytes, d.pos, d.blockSize)
        u == decoder_toUnicode(d.codec, << >>, buffer)
    IN  IF Len(buffer) = 0 THEN [d EXCEPT !.pc = "done"]
        ELSE [d EXCEPT !.pos = @ + Len(buffer),
                       !.remaining = << >>,
                       !.pieces = Append(@, u.out)]

\* one turn of the loop
decodeStep(d) ==
    LET buffer == file_read(d.bytes, d.pos, d.blockSize)
        u == decoder_toUnicode(d.codec, d.remaining, buffer)
    IN  IF Len(buffer) = 0 THEN [d EXCEPT !.pc = "done"]
        ELSE [d EXCEPT !.pos = @ + Len(buffer),
                       !.remaining = u.remaining,
                       !.pieces = Append(@, u.out)]

RECURSIVE decodeLoop(_)
decodeLoop(d) == IF d.pc = "done" THEN d ELSE decodeLoop(decodeStep(d))

\* QStringList::join(QString::null)
RECURSIVE join(_)
join(pieces) == IF pieces = << >> THEN << >> ELSE pieces[1] \o join(Tail(pieces))

\* the text the loop hands to setPlainText
decodeFile(codec, f) ==
    join(decodeLoop(decodeStart(codec, f.bytes, f.bomOffset, DECODE_BLOCK_SIZE)).pieces)

\* loadDocumentFrom once the file is open and the large-file question is
\* past
\* mutant: the explicit encoding is not looked at
loadDocumentFrom_read_detectedOnly(w, filename, textEncoding) ==
    LET f == File(filename)
        w1 == setLineEndingMode(w, f.lineEndings)
        codec == f.textCodec
        w2 == setEncoding(w1, codec)
        pieces == decodeFile(codec, f)
        w3 == editorClear(w2)
        w4 == setSyntax(w3, nullSyntax)
        w5 == clearUndoRedoStacks(setPlainText(w4, pieces))
        definition == IF f.magic # nullSyntax THEN f.magic ELSE f.byName
        w6 == IF definition # nullSyntax THEN setSyntax(w5, definition) ELSE w5
        w7 == [w6 EXCEPT !.m_openFilename = filename,
                         !.m_documentTitle = fileName(filename)]
        w8 == QUndoStack_setClean(QUndoStack_clear(w7))
        w9 == [w8 EXCEPT !.reloadEnabled = TRUE]
    IN  updateTitle(w9)

\* mutant: the file name is asked for the syntax before the content
loadDocumentFrom_read_nameFirst(w, filename, textEncoding) ==
    LET f == File(filename)
        w1 == setLineEndingMode(w, f.lineEndings)
        codec == IF textEncoding # "" /\ codecForName(textEncoding).ok
                 THEN codecForName(textEncoding).codec
                 ELSE f.textCodec
        w2 == setEncoding(w1, codec)
        pieces == decodeFile(codec, f)
        w3 == editorClear(w2)
        w4 == setSyntax(w3, nullSyntax)
        w5 == clearUndoRedoStacks(setPlainText(w4, pieces))
        definition == IF f.byName # nullSyntax THEN f.byName ELSE f.magic
        w6 == IF definition # nullSyntax THEN setSyntax(w5, definition) ELSE w5
        w7 == [w6 EXCEPT !.m_openFilename = filename,
                         !.m_documentTitle = fileName(filename)]
        w8 == QUndoStack_setClean(QUndoStack_clear(w7))
        w9 == [w8 EXCEPT !.reloadEnabled = TRUE]
    IN  updateTitle(w9)

\* mutant: the line-ending mode in force before the load is kept
loadDocumentFrom_read_modeKept(w, filename, textEncoding) ==
    LET f == File(filename)
        codec == IF textEncoding # "" /\ codecForName(textEncoding).ok
                 THEN codecForName(textEncoding).codec
                 ELSE f.textCodec
        w2 == setEncoding(w, codec)
        pieces == decodeFile(codec, f)
        w3 == editorClear(w2)
        w4 == setSyntax(w3, nullSyntax)
        w5 == clearUndoRedoStacks(setPlainText(w4, pieces))
        definition == IF f.magic # nullSyntax THEN f.magic ELSE f.byName
        w6 == IF definition # nullSyntax THEN setSyntax(w5, definition) ELSE w5
        w7 == [w6 EXCEPT !.m_openFilename = filename,
                         !.m_documentTitle = fileName(filename)]
        w8 == QUndoStack_setClean(QUndoStack_clear(w7))
        w9 == [w8 EXCEPT !.reloadEnabled = TRUE]
    IN  updateTitle(w9)

\* mutant: the explicit encoding is recorded under the name it was given
loadDocumentFrom_read_recordsGiven(w, filename, textEncoding) ==
    LET f == File(filename)
        w1 == setLineEndingMode(w, f.lineEndings)
        codec == IF textEncoding # "" /\ codecForName(textEncoding).ok
                 THEN codecForName(textEncoding).codec
                 ELSE f.textCodec
        w2 == setEncoding(w1, IF textEncoding # "" THEN textEncoding ELSE codec)
        pieces == decodeFile(codec, f)
        w3 == editorClear(w2)
        w4 == setSyntax(w3, nullSyntax)
        w5 == clearUndoRedoStacks(setPlainText(w4, pieces))
        definition == IF f.magic # nullSyntax THEN f.magic ELSE f.byName
        w6 == IF definition # nullSyntax THEN setSyntax(w5, definition) ELSE w5
        w7 == [w6 EXCEPT !.m_openFilename = filename,
                         !.m_documentTitle = fileName(filename)]
        w8 == QUndoStack_setClean(QUndoStack_clear(w7))
        w9 == [w8 EXCEPT !.reloadEnabled = TRUE]
    IN  updateTitle(w9)

loadDocumentFrom_read(w, filename, textEncoding) ==
    LET f == File(filename)
        w1 == setLineEndingMode(w, f.lineEndings)
        codec == IF textEncoding # "" /\ codecForName(textEncoding).ok
                 THEN codecForName(textEncoding).codec
                 ELSE f.textCodec
        w2 == setEncoding(w1, codec)
        pieces == decodeFile(codec, f)
        w3 == editorClear(w2)
        w4 == setSyntax(w3, nullSyntax)
        w5 == clearUndoRedoStacks(setPlainText(w4, pieces))
        definition == IF f.magic # nullSyntax THEN f.magic ELSE f.byName
        w6 == IF definition # nullSyntax THEN setSyntax(w5, definition) ELSE w5
        w7 == [w6 EXCEPT !.m_openFilename = filename,
                         !.m_documentTitle = fileName(filename)]
        w8 == QUndoStack_setClean(QUndoStack_clear(w7))
        w9 == [w8 EXCEPT !.reloadEnabled = TRUE]
    IN  updateTitle(w9)

\* mutant: the line endings are detected and set before the large-file
\* question is asked
loadDocumentFrom_detectsFirst(w, filename, textEncoding, largeAnswer) ==
    LET f == File(filename)
        large == f.size > LARGE_FILE_SIZE
        askedLarge == IF large THEN <<"large file?">> ELSE << >>
    IN  IF ~f.exists THEN Result(w, FALSE, <<"Cannot open file">>)
        ELSE IF large /\ largeAnswer = No
             THEN Result(setLineEndingMode(w, f.lineEndings), FALSE, askedLarge)
        ELSE Result(loadDocumentFrom_read(w, filename, textEncoding), TRUE, askedLarge)

\* mutant: a file of exactly LARGE_FILE_SIZE bytes counts as large
loadDocumentFrom_largeAtThreshold(w, filename, textEncoding, largeAnswer) ==
    LET f == File(filename)
        large == f.size >= LARGE_FILE_SIZE
        askedLarge == IF large THEN <<"large file?">> ELSE << >>
    IN  IF ~f.exists THEN Result(w, FALSE, <<"Cannot open file">>)
        ELSE IF large /\ largeAnswer = No THEN Result(w, FALSE, askedLarge)
        ELSE Result(loadDocumentFrom_read(w, filename, textEncoding), TRUE, askedLarge)

loadDocumentFrom(w, filename, textEncoding, largeAnswer) ==
    LET f == File(filename)
        large == f.size > LARGE_FILE_SIZE
        askedLarge == IF large THEN <<"large file?">> ELSE << >>
    IN  IF ~f.exists THEN Result(w, FALSE, <<"Cannot open file">>)
        ELSE IF large /\ largeAnswer = No THEN Result(w, FALSE, askedLarge)
        ELSE Result(loadDocumentFrom_read(w, filename, textEncoding), TRUE, askedLarge)

saveDocument(w, dlgPath) ==
    LET ask == w.m_openFilename = NullPath
        path == IF ask THEN dlgPath ELSE w.m_openFilename
        asked == IF ask THEN <<"Save File">> ELSE << >>
    IN  IF path = NullPath THEN Result(w, FALSE, asked)
        ELSE IF ~saveDocumentTo(path) THEN Result(w, FALSE, asked)
        ELSE
          LET w1 == [w EXCEPT !.m_openFilename = path,
                              !.m_documentTitle = fileName(path)]
              w2 == clearUndoRedoStacks(QUndoStack_setClean(w1))
          IN  Result(updateTitle(w2), TRUE, asked)

saveDocumentAs(w, dlgPath) ==
    LET asked == <<"Save File As">>
    IN  IF dlgPath = NullPath THEN Result(w, FALSE, asked)
        ELSE IF ~saveDocumentTo(dlgPath) THEN Result(w, FALSE, asked)
        ELSE
          LET w1 == [w EXCEPT !.m_openFilename = dlgPath,
                              !.m_documentTitle = fileName(dlgPath)]
              w2 == clearUndoRedoStacks(QUndoStack_setClean(w1))
          IN  Result(updateTitle(w2), TRUE, asked)

\* mutant: a copy that is saved as saveDocumentAs saves
saveDocumentCopy_asSaveAs(w, dlgPath) ==
    LET s == saveDocumentAs(w, dlgPath)
    IN  Result(s.w, s.ret, <<"Save Copy As">>)

saveDocumentCopy(w, dlgPath) ==
    IF dlgPath = NullPath THEN Result(w, FALSE, <<"Save Copy As">>)
    ELSE Result(w, saveDocumentTo(dlgPath), <<"Save Copy As">>)

\* mutant: the outcome of the save is not looked at
promptForSave_ignoresSave(w, response, dlgPath) ==
    IF isDocumentModified(w)
    THEN IF response = Cancel THEN Result(w, FALSE, <<"save changes?">>)
         ELSE IF response = Yes
              THEN LET s == saveDocument(w, dlgPath)
                   IN  Result(s.w, TRUE, <<"save changes?">> \o s.asked)
              ELSE Result(w, TRUE, <<"save changes?">>)
    ELSE Result(w, TRUE, << >>)

promptForSave(w, response, dlgPath) ==
    IF isDocumentModified(w)
    THEN IF response = Cancel THEN Result(w, FALSE, <<"save changes?">>)
         ELSE IF response = Yes
              THEN LET s == saveDocument(w, dlgPath)
                   IN  Result(s.w, s.ret, <<"save changes?">> \o s.asked)
              ELSE Result(w, TRUE, <<"save changes?">>)
    ELSE Result(w, TRUE, << >>)

\* mutant: the encoding is left as it was
newDocument_keepsEncoding(w, response, dlgPath, isWin32) ==
    LET p == promptForSave(w, response, dlgPath)
    IN  IF ~p.ret THEN p
        ELSE
          LET w1 == clearUndoRedoStacks(editorClear(p.w))
              w2 == setSyntax(w1, nullSyntax)
              w3 == setLineEndingMode(w2, IF isWin32 THEN CRLF ELSE LFOnly)
              w4 == [w3 EXCEPT !.m_openFilename = NullPath,
                               !.m_documentTitle = "Untitled"]
              w5 == QUndoStack_setClean(QUndoStack_clear(w4))
              w6 == [w5 EXCEPT !.reloadEnabled = FALSE]
          IN  Result(updateTitle(w6), TRUE, p.asked)

\* mutant: the Reload action is left as it is
newDocument_reloadKept(w, response, dlgPath, isWin32) ==
    LET p == promptForSave(w, response, dlgPath)
    IN  IF ~p.ret THEN p
        ELSE
          LET w1 == clearUndoRedoStacks(editorClear(p.w))
              w2 == setEncoding(setSyntax(w1, nullSyntax), "UTF-8")
              w3 == setLineEndingMode(w2, IF isWin32 THEN CRLF ELSE LFOnly)
              w4 == [w3 EXCEPT !.m_openFilename = NullPath,
                               !.m_documentTitle = "Untitled"]
              w5 == QUndoStack_setClean(QUndoStack_clear(w4))
          IN  Result(updateTitle(w5), TRUE, p.asked)

newDocument(w, response, dlgPath, isWin32) ==
    LET p == promptForSave(w, response, dlgPath)
    IN  IF ~p.ret THEN p
        ELSE
          LET w1 == clearUndoRedoStacks(editorClear(p.w))
              w2 == setEncoding(setSyntax(w1, nullSyntax), "UTF-8")
              w3 == setLineEndingMode(w2, IF isWin32 THEN CRLF ELSE LFOnly)
              w4 == [w3 EXCEPT !.m_openFilename = NullPath,
                               !.m_documentTitle = "Untitled"]
              w5 == QUndoStack_setClean(QUndoStack_clear(w4))
              w6 == [w5 EXCEPT !.reloadEnabled = FALSE]
          IN  Result(updateTitle(w6), TRUE, p.asked)

loadDocument(w, dlgPath, largeAnswer) ==
    IF dlgPath = NullPath THEN Result(w, FALSE, <<"Load File">>)
    ELSE LET l == loadDocumentFrom(w, dlgPath, "", largeAnswer)
         IN  Result(l.w, l.ret, <<"Load File">> \o l.asked)

\* mutant: the file is loaded again whatever the answer
reloadDocument_ignoresAnswer(w, discardAnswer, largeAnswer) ==
    LET l == loadDocumentFrom(w, w.m_openFilename, "", largeAnswer)
    IN  Result(l.w, l.ret,
               (IF isDocumentModified(w) THEN <<"discard changes?">> ELSE << >>)
                   \o l.asked)

reloadDocument(w, discardAnswer, largeAnswer) ==
    IF isDocumentModified(w) /\ discardAnswer = No
    THEN Result(w, FALSE, <<"discard changes?">>)
    ELSE LET l == loadDocumentFrom(w, w.m_openFilename, "", largeAnswer)
         IN  Result(l.w, l.ret,
                    (IF isDocumentModified(w) THEN <<"discard changes?">> ELSE << >>)
                        \o l.asked)

\* mutant: the encoding is set before the command is built, which then
\* holds the new name as the one to go back to
changeEncoding_setFirst(w, encoding) ==
    IF w.m_openFilename = NullPath
    THEN setEncoding(w, encoding)
    ELSE LET w1 == setEncoding(w, encoding)
         IN  addUndoCommand(w1, ChangeEncodingCommand(w1, encoding))

\* mutant: the command is pushed whether or not a file is open
changeEncoding_alwaysPushed(w, encoding) ==
    addUndoCommand(w, ChangeEncodingCommand(w, encoding))

\* mutant: nothing is pushed for the encoding the document already has
changeEncoding_skipsSame(w, encoding) ==
    IF w.m_openFilename = NullPath
    THEN setEncoding(w, encoding)
    ELSE IF encoding = w.m_textEncoding THEN w
    ELSE addUndoCommand(w, ChangeEncodingCommand(w, encoding))

changeEncoding(w, encoding) ==
    IF w.m_openFilename = NullPath
    THEN setEncoding(w, encoding)
    ELSE addUndoCommand(w, ChangeEncodingCommand(w, encoding))

\* mutant: the mode is set before the command is built, which then holds
\* the new mode as the one to go back to
changeLineEndingMode_setFirst(w, mode) ==
    IF w.m_openFilename = NullPath
    THEN setLineEndingMode(w, mode)
    ELSE LET w1 == setLineEndingMode(w, mode)
         IN  addUndoCommand(w1, ChangeLineEndingCommand(w1, mode))

changeLineEndingMode(w, mode) ==
    IF w.m_openFilename = NullPath
    THEN setLineEndingMode(w, mode)
    ELSE addUndoCommand(w, ChangeLineEndingCommand(w, mode))

\* mutant: the cycle runs the other way
nextLineEndingMode_backwards(w) ==
    CASE w.m_lineEndingMode = CROnly -> changeLineEndingMode(w, CRLF)
      [] w.m_lineEndingMode = LFOnly -> changeLineEndingMode(w, CROnly)
      [] w.m_lineEndingMode = CRLF -> changeLineEndingMode(w, LFOnly)

nextLineEndingMode(w) ==
    CASE w.m_lineEndingMode = CROnly -> changeLineEndingMode(w, LFOnly)
      [] w.m_lineEndingMode = LFOnly -> changeLineEndingMode(w, CRLF)
      [] w.m_lineEndingMode = CRLF -> changeLineEndingMode(w, CROnly)

\* the lambda connected to QTextDocument::undoCommandAdded, run for the
\* edit that made the editor's text t
undoCommandAdded(w, t) ==
    LET w1 == documentEdit(w, t)
    IN  addUndoCommand(w1, TextEditorUndoCommand(w1))

\* mutant: the event is accepted whatever promptForSave returns
closeEvent_alwaysAccepted(w, response, dlgPath) ==
    LET p == promptForSave(w, response, dlgPath)
    IN  Result(p.w, TRUE, p.asked)

\* closeEvent: ret is whether the event was accepted
closeEvent(w, response, dlgPath) == promptForSave(w, response, dlgPath)

(***************************************************************************)
(* The window after construction: the constructor builds the widgets       *)
(* (nothing checked, Undo and Redo disabled, an empty undo stack) and      *)
(* ends with newDocument().                                                *)
(***************************************************************************)
Unset == "unset"

BeforeNewDocument ==
    [m_textEncoding |-> "", encodingButton |-> << >>, encodingChecked |-> NoAction,
     m_lineEndingMode |-> Unset, crlfLabel |-> "", lineEndingChecked |-> NoAction,
     syntax |-> nullSyntax, syntaxButton |-> "", syntaxChecked |-> NoAction,
     m_openFilename |-> NullPath, m_documentTitle |-> "", windowTitle |-> << >>,
     text |-> << >>, docUndo |-> << >>, docRedo |-> << >>,
     commands |-> << >>, index |-> 0, clean_index |-> 0,
     undoEnabled |-> FALSE, redoEnabled |-> FALSE, reloadEnabled |-> TRUE]

QTextPadWindow(isWin32) == newDocument(BeforeNewDocument, No, NullPath, isWin32).w

Event(op, ret, asked) == [op |-> op, ret |-> ret, asked |-> asked]

\* ev is an observation of the handlers, not a field of the window; a
\* specification that starts it as NotObserved leaves it so
NotObserved == Event("", TRUE, << >>)

\* what a load or a save fixes of the document
Snapshot(w) ==
    [text |-> w.text, m_textEncoding |-> w.m_textEncoding,
     m_lineEndingMode |-> w.m_lineEndingMode]

\* the handlers that end, when they return true, with the document as it
\* was loaded, saved or made new
SyncOps == {"newDocument", "loadDocument", "loadDocumentFrom", "reloadDocument",
            "saveDocument", "saveDocumentAs"}

\* no decode loop is run on its own
NoDecode == [decodeStart("", << >>, 0, 0) EXCEPT !.pc = "none"]

Construction ==
    /\ win32 \in BOOLEAN
    /\ closed = FALSE
    /\ Starts(QTextPadWindow(win32))

\* synced, like ev, is an observation: a specification that starts it as
\* NotTracked leaves it so
NotTracked == [text |-> << >>, m_textEncoding |-> "", m_lineEndingMode |-> Unset]

\* the build without _WIN32, not observed
Init ==
    /\ Construction
    /\ ~win32
    /\ ev = NotObserved
    /\ synced = NotTracked
    /\ decode = NoDecode

\* either build, observed
InitObserved ==
    /\ Construction
    /\ ev = Event("QTextPadWindow", TRUE, << >>)
    /\ synced = NotTracked
    /\ decode = NoDecode

\* the build without _WIN32, with what was last loaded or saved tracked
InitSynced ==
    /\ Construction
    /\ ~win32
    /\ ev = NotObserved
    /\ synced = Snapshot(Win)
    /\ decode = NoDecode

\* the build without _WIN32, observed
InitFiles == InitObserved /\ ~win32

(***************************************************************************)
(* The actions: one per handler the user (or the caller of the public      *)
(* interface) can start.  A push is left out once the undo stack holds     *)
(* MaxHist commands.                                                       *)
(***************************************************************************)
\* what a file dialog returns: nothing (cancelled), a file that exists, a
\* file that does not
DialogPaths == {NullPath, P_report, P_missing}

\* the texts one edit can make of t: a character typed into an empty
\* editor, or all of the text deleted
Edits(t) == IF t = << >> THEN {<<120>>} ELSE {<< >>}

\* the answers to the save prompt: the button pressed and, for Yes, the
\* path picked should the Save File dialog come up
SaveAnswers(dlgPaths) ==
    {<<Cancel, NullPath>>, <<No, NullPath>>} \cup {<<Yes, p>> : p \in dlgPaths}

Does(op, r) ==
    /\ Becomes(r.w)
    /\ ev' = IF ev = NotObserved THEN ev ELSE Event(op, r.ret, r.asked)
    /\ synced' = IF synced # NotTracked /\ op \in SyncOps /\ r.ret
                  THEN Snapshot(r.w) ELSE synced
    /\ UNCHANGED <<win32, closed, decode>>

NewDocument(response, dlgPath) ==
    /\ ~closed
    /\ Does("newDocument", newDocument(Win, response, dlgPath, win32))

LoadDocument(dlgPath, largeAnswer) ==
    /\ ~closed
    /\ Does("loadDocument", loadDocument(Win, dlgPath, largeAnswer))

\* loadDocumentFrom is public: the call with an explicit encoding
LoadDocumentFrom(filename, textEncoding, largeAnswer) ==
    /\ ~closed
    /\ Does("loadDocumentFrom",
            loadDocumentFrom(Win, filename, textEncoding, largeAnswer))

ReloadDocument(discardAnswer, largeAnswer) ==
    /\ ~closed
    /\ reloadEnabled
    /\ Does("reloadDocument", reloadDocument(Win, discardAnswer, largeAnswer))

SaveDocument(dlgPath) ==
    /\ ~closed
    /\ Does("saveDocument", saveDocument(Win, dlgPath))

SaveDocumentAs(dlgPath) ==
    /\ ~closed
    /\ Does("saveDocumentAs", saveDocumentAs(Win, dlgPath))

SaveDocumentCopy(dlgPath) ==
    /\ ~closed
    /\ Does("saveDocumentCopy", saveDocumentCopy(Win, dlgPath))

SetSyntax(syn) ==
    /\ ~closed
    /\ Does("setSyntax", Result(setSyntax(Win, syn), TRUE, << >>))

ChangeEncoding(encoding) ==
    /\ ~closed
    /\ m_openFilename # NullPath => index < MaxHist
    /\ Does("changeEncoding", Result(changeEncoding(Win, encoding), TRUE, << >>))

ChangeLineEndingMode(mode) ==
    /\ ~closed
    /\ m_openFilename # NullPath => index < MaxHist
    /\ Does("changeLineEndingMode",
            Result(changeLineEndingMode(Win, mode), TRUE, << >>))

NextLineEndingMode ==
    /\ ~closed
    /\ m_openFilename # NullPath => index < MaxHist
    /\ Does("nextLineEndingMode", Result(nextLineEndingMode(Win), TRUE, << >>))

EditText(t) ==
    /\ ~closed
    /\ index < MaxHist
    /\ Does("edit", Result(undoCommandAdded(Win, t), TRUE, << >>))

Undo ==
    /\ ~closed
    /\ Does("undo", Result(QUndoStack_undo(Win), TRUE, << >>))

Redo ==
    /\ ~closed
    /\ Does("redo", Result(QUndoStack_redo(Win), TRUE, << >>))

CloseEvent(response, dlgPath) ==
    /\ ~closed
    /\ LET r == closeEvent(Win, response, dlgPath)
       IN  /\ Becomes(r.w)
           /\ ev' = IF ev = NotObserved THEN ev
                    ELSE Event("closeEvent", r.ret, r.asked)
           /\ closed' = r.ret
           \* the close saved the document when promptForSave went through
           \* saveDocument, which leaves a modified document clean
           /\ synced' = IF /\ synced # NotTracked
                            /\ r.ret
                            /\ isDocumentModified(Win)
                            /\ ~isDocumentModified(r.w)
                         THEN Snapshot(r.w) ELSE synced
           /\ UNCHANGED <<win32, decode>>

\* the answers to the large-file question of a load of path: the question
\* comes up for a large file only
LargeAnswers(path) ==
    IF File(path).size > LARGE_FILE_SIZE THEN {Yes, No} ELSE {Yes}

\* the handlers that open, save and replace the document, with the paths
\* picked in file dialogs and the paths and explicit encodings given to
\* loadDocumentFrom drawn from the given sets
FileHandlers(dlgPaths, loadPaths, loadEncodings) ==
    \/ \E a \in SaveAnswers(dlgPaths) : NewDocument(a[1], a[2])
    \/ \E dlgPath \in dlgPaths :
           \E largeAnswer \in LargeAnswers(dlgPath) :
               LoadDocument(dlgPath, largeAnswer)
    \/ \E filename \in loadPaths, textEncoding \in loadEncodings :
           \E largeAnswer \in LargeAnswers(filename) :
               LoadDocumentFrom(filename, textEncoding, largeAnswer)
    \/ \E discardAnswer \in {Yes, No} :
           \E largeAnswer \in LargeAnswers(m_openFilename) :
               ReloadDocument(discardAnswer, largeAnswer)
    \/ \E dlgPath \in dlgPaths : SaveDocument(dlgPath)
    \/ \E dlgPath \in dlgPaths : SaveDocumentAs(dlgPath)
    \/ \E dlgPath \in dlgPaths : SaveDocumentCopy(dlgPath)

\* the handlers of the Settings menu and the status bar that push commands
SettingHandlers(encodings, modes) ==
    \/ \E encoding \in encodings : ChangeEncoding(encoding)
    \/ \E mode \in modes : ChangeLineEndingMode(mode)
    \/ NextLineEndingMode

\* typing, Undo and Redo
EditHandlers ==
    \/ \E t \in Edits(text) : EditText(t)
    \/ Undo
    \/ Redo

(***************************************************************************)
(* Spec: the undo stack under every kind of command, with one file on      *)
(* disk (small, so that no large-file question comes up) to open and to    *)
(* save to.  The handlers are not observed.                                *)
(***************************************************************************)
SpecDialogPaths == {NullPath, P_report}
SpecEncodings == {"ISO-8859-1"}
SpecModes == {CROnly}

Next ==
    \/ FileHandlers(SpecDialogPaths, {P_report}, {""})
    \/ SetSyntax("Python")
    \/ SettingHandlers(SpecEncodings, SpecModes)
    \/ EditHandlers

Spec == Init /\ [][Next]_vars

(***************************************************************************)
(* SpecFiles: every file, every explicit encoding and every dialog answer, *)
(* with the commands that make a document modified, in the build without   *)
(* _WIN32.  The handlers are observed in ev.                               *)
(***************************************************************************)
NextFiles ==
    \/ FileHandlers(DialogPaths, Paths, LoadEncodings)
    \/ index < MaxHistFiles /\ ChangeEncoding("bogus")
    \/ \E t \in Edits(text) : index < MaxHistFiles /\ EditText(t)
    \/ Undo
    \/ Redo
    \/ \E a \in SaveAnswers(DialogPaths) : CloseEvent(a[1], a[2])

SpecFiles == InitFiles /\ [][NextFiles]_vars

(***************************************************************************)
(* SpecBuilds: both builds, with and without _WIN32, under the handlers    *)
(* that open, save and replace the document and the edits that make it     *)
(* modified.  The handlers are observed in ev.                             *)
(***************************************************************************)
NextBuilds ==
    \/ FileHandlers(DialogPaths, {P_idle}, {""})
    \/ \E t \in Edits(text) : index < MaxHistFiles /\ EditText(t)
    \/ Undo
    \/ Redo

SpecBuilds == InitObserved /\ [][NextBuilds]_vars

(***************************************************************************)
(* SpecSynced: one file, edits, Undo and Redo and a change of the          *)
(* encoding, with what the last load or save left of the document tracked  *)
(* in synced.                                                              *)
(***************************************************************************)
NextSynced ==
    \/ FileHandlers(SpecDialogPaths, {P_report}, {""})
    \/ \E encoding \in SpecEncodings : ChangeEncoding(encoding)
    \/ EditHandlers

SpecSynced == InitSynced /\ [][NextSynced]_vars

(***************************************************************************)
(* SpecDecode: the decode loop of loadDocumentFrom run block by block, on  *)
(* every short file of the bytes of DecodeBytes (a letter, the lead byte   *)
(* and the continuation byte of a two-byte UTF-8 sequence), with and       *)
(* without a UTF-8 BOM in front, under both codecs and every block size up *)
(* to MaxBlock.  The loop runs to completion once started, so its turns    *)
(* are weakly fair.                                                        *)
(***************************************************************************)
DecodeBytes == {97, 195, 169}
UTF8_BOM == <<239, 187, 191>>

ByteSeqs(n) == UNION {[1..k -> DecodeBytes] : k \in 0..n}

InitDecode ==
    /\ Construction
    /\ ~win32
    /\ ev = NotObserved
    /\ synced = NotTracked
    /\ \E codec \in MenuEncodings, content \in ByteSeqs(MaxBytes),
          bom \in BOOLEAN, blockSize \in 1..MaxBlock :
          decode = decodeStart(codec,
                               (IF bom THEN UTF8_BOM ELSE << >>) \o content,
                               IF bom THEN 3 ELSE 0,
                               blockSize)

\* a turn of the loop that read a block
DecodeBlock ==
    /\ decode.pc = "loop"
    /\ Len(file_read(decode.bytes, decode.pos, decode.blockSize)) # 0
    /\ decode' = decodeStep(decode)
    /\ UNCHANGED <<winVars, win32, closed, synced, ev>>

\* the turn that read nothing and left the loop
DecodeEnd ==
    /\ decode.pc = "loop"
    /\ Len(file_read(decode.bytes, decode.pos, decode.blockSize)) = 0
    /\ decode' = decodeStep(decode)
    /\ UNCHANGED <<winVars, win32, closed, synced, ev>>

NextDecode == DecodeBlock \/ DecodeEnd

SpecDecode == InitDecode /\ [][NextDecode]_vars /\ WF_vars(NextDecode)

(***************************************************************************)
(* What the claims speak of.  A claim about a handler is stated of the     *)
(* window the handler makes of the window as it is (Win), for every input  *)
(* the handler can be given, in every reachable state.                     *)
(***************************************************************************)
isModified == isDocumentModified(Win)
hasFilePath == m_openFilename # NullPath
canUndo == index > 0
canRedo == index < Len(commands)
titleMarked(w) == w.windowTitle[1] = "* "

\* the names changeEncoding can be given
EncodingNames == CodecNames \cup {"bogus"}

\* the windows the handlers that push make of w.  The encoding and the
\* line endings push only for a document with a file.
Pushes(w) ==
    {undoCommandAdded(w, t) : t \in Edits(w.text)}
    \cup
    (IF w.m_openFilename = NullPath THEN {}
     ELSE {changeEncoding(w, e) : e \in EncodingNames}
          \cup {changeLineEndingMode(w, m) : m \in LineEndingModes}
          \cup {nextLineEndingMode(w)})

\* what the handlers that load a file make of w
Loads(w, dlgPaths, loadPaths, loadEncodings) ==
    UNION {{loadDocument(w, p, a) : a \in LargeAnswers(p)} : p \in dlgPaths}
    \cup UNION {{loadDocumentFrom(w, p, e, a) :
                    e \in loadEncodings, a \in LargeAnswers(p)} : p \in loadPaths}
    \cup (IF w.reloadEnabled
          THEN {reloadDocument(w, d, a) :
                   d \in {Yes, No}, a \in LargeAnswers(w.m_openFilename)}
          ELSE {})

\* what newDocument makes of w
NewDocuments(w, dlgPaths) ==
    {newDocument(w, a[1], a[2], win32) : a \in SaveAnswers(dlgPaths)}

(***************************************************************************)
(* C1: right after a successful load or newDocument isModified() is        *)
(* false; every push makes isModified() true; undoing a push made at the   *)
(* clean index makes isModified() false again; and in every state          *)
(* isModified(), and with it the modified marker of the window title, is   *)
(* that the index is off the clean index.                                  *)
(***************************************************************************)
C1_CleanDirty ==
    /\ \A r \in Loads(Win, SpecDialogPaths, {P_report}, {""})
                   \cup NewDocuments(Win, SpecDialogPaths) :
          r.ret => ~isDocumentModified(r.w) /\ ~titleMarked(r.w)
    /\ \A w \in Pushes(Win) : isDocumentModified(w) /\ titleMarked(w)
    /\ ~isModified =>
          \A w \in Pushes(Win) :
              LET u == QUndoStack_undo(w)
              IN  ~isDocumentModified(u) /\ ~titleMarked(u)
    /\ isModified <=> index # clean_index
    /\ titleMarked(Win) <=> index # clean_index

\* a document with a file was changed and the change undone, back to the
\* clean index
C1_Witness ==
    /\ hasFilePath
    /\ commands # << >>
    /\ index = 0
    /\ clean_index = 0
    /\ ~isModified
    /\ redoEnabled

(***************************************************************************)
(* C2: while m_openFilename is empty, changeEncoding, changeLineEndingMode *)
(* and nextLineEndingMode leave the undo stack, its index, its clean index *)
(* and isModified() as they were and the document without a file, and set  *)
(* the encoding or the line-ending mode to the value asked for.            *)
(***************************************************************************)
nextMode(mode) ==
    CASE mode = CROnly -> LFOnly
      [] mode = LFOnly -> CRLF
      [] mode = CRLF -> CROnly

HistoryKept(w) ==
    /\ w.commands = commands
    /\ w.index = index
    /\ w.clean_index = clean_index
    /\ isDocumentModified(w) = isModified
    /\ w.m_openFilename = NullPath

C2_SilentTransition ==
    ~hasFilePath =>
        /\ \A e \in EncodingNames :
              LET w == changeEncoding(Win, e)
              IN  HistoryKept(w) /\ w.m_textEncoding = e
        /\ \A m \in LineEndingModes :
              LET w == changeLineEndingMode(Win, m)
              IN  HistoryKept(w) /\ w.m_lineEndingMode = m
        /\ LET w == nextLineEndingMode(Win)
           IN  HistoryKept(w) /\ w.m_lineEndingMode = nextMode(m_lineEndingMode)

\* an untitled document with an edit on the undo stack whose encoding and
\* line endings were both changed
C2_Witness ==
    /\ ~hasFilePath
    /\ m_textEncoding = "ISO-8859-1"
    /\ m_lineEndingMode = CROnly
    /\ Len(commands) = 1
    /\ \A i \in 1..Len(commands) : commands[i].kind = "text"

(***************************************************************************)
(* C3: with a file open, changeEncoding(name) leaves exactly one command   *)
(* more than were below the index, an encoding command, and the encoding   *)
(* set to name; an undo() right after it sets the encoding to the one from *)
(* before the call.  The same for changeLineEndingMode and the line-ending *)
(* mode.                                                                   *)
(***************************************************************************)
PushedOne(w, kind) ==
    /\ w.index = index + 1
    /\ Len(w.commands) = index + 1
    /\ SubSeq(w.commands, 1, index) = SubSeq(commands, 1, index)
    /\ w.commands[index + 1].kind = kind

C3_MetadataCommand ==
    hasFilePath =>
        /\ \A e \in EncodingNames :
              LET w == changeEncoding(Win, e)
              IN  /\ PushedOne(w, "encoding")
                  /\ w.m_textEncoding = e
                  /\ QUndoStack_undo(w).m_textEncoding = m_textEncoding
        /\ \A m \in LineEndingModes :
              LET w == changeLineEndingMode(Win, m)
              IN  /\ PushedOne(w, "lineEnding")
                  /\ w.m_lineEndingMode = m
                  /\ QUndoStack_undo(w).m_lineEndingMode = m_lineEndingMode

\* the encoding of a file was changed and the change undone
C3_Witness ==
    /\ hasFilePath
    /\ canRedo
    /\ commands[index + 1].kind = "encoding"
    /\ commands[index + 1].old # commands[index + 1].new
    /\ m_textEncoding = commands[index + 1].old

(***************************************************************************)
(* C4: with a file open, an undo() right after a push leaves the encoding, *)
(* the line-ending mode and the index as they were before the push; a      *)
(* redo() followed by an undo(), and an undo() followed by a redo(), leave *)
(* the encoding and the line-ending mode as they were before the pair.     *)
(***************************************************************************)
Metadata(w) == <<w.m_textEncoding, w.m_lineEndingMode>>

C4_UndoRedoInverse ==
    hasFilePath =>
        /\ \A w \in Pushes(Win) :
              LET u == QUndoStack_undo(w)
              IN  Metadata(u) = Metadata(Win) /\ u.index = index
        /\ canRedo =>
              Metadata(QUndoStack_undo(QUndoStack_redo(Win))) = Metadata(Win)
        /\ canUndo =>
              Metadata(QUndoStack_redo(QUndoStack_undo(Win))) = Metadata(Win)

\* a change of the encoding and a change of the line endings of a file, the
\* second undone: the index is between two commands that each change what
\* they set
C4_Witness ==
    /\ hasFilePath
    /\ Len(commands) = 2
    /\ index = 1
    /\ commands[1].kind = "encoding"
    /\ commands[1].old # commands[1].new
    /\ commands[2].kind = "lineEnding"
    /\ commands[2].old # commands[2].new
    /\ m_textEncoding = commands[1].new
    /\ m_lineEndingMode = commands[2].old

(***************************************************************************)
(* C5: a push leaves the commands that were below the index and the        *)
(* command pushed, which is the last, with the index on it: the commands   *)
(* after the index are gone.  On an empty undo stack push(a); push(b);     *)
(* undo(); push(c) leaves the two commands a, c with the index 2, and a    *)
(* redo() after it changes nothing.                                        *)
(***************************************************************************)
Pushed(cmd, w) == [cmd |-> cmd, w |-> w]

\* the handlers that push, each with the command it builds
PushedBy(w) ==
    {Pushed(TextEditorUndoCommand(documentEdit(w, t)), undoCommandAdded(w, t)) :
        t \in Edits(w.text)}
    \cup
    (IF w.m_openFilename = NullPath THEN {}
     ELSE {Pushed(ChangeEncodingCommand(w, e), changeEncoding(w, e)) :
              e \in EncodingNames}
          \cup {Pushed(ChangeLineEndingCommand(w, m), changeLineEndingMode(w, m)) :
                   m \in LineEndingModes}
          \cup {Pushed(ChangeLineEndingCommand(w, nextMode(w.m_lineEndingMode)),
                       nextLineEndingMode(w))})

C5_LinearHistory ==
    /\ \A p \in PushedBy(Win) :
          /\ p.w.commands = Append(SubSeq(commands, 1, index), p.cmd)
          /\ p.w.index = Len(p.w.commands)
          /\ QUndoStack_redo(p.w) = p.w
    /\ commands = << >> =>
          \A a \in PushedBy(Win) :
              \A b \in PushedBy(a.w) :
                  \A c \in PushedBy(QUndoStack_undo(b.w)) :
                      /\ c.w.commands = <<a.cmd, c.cmd>>
                      /\ c.w.index = 2
                      /\ QUndoStack_redo(c.w) = c.w

\* two edits of a file, the second undone, and a change of the encoding or
\* of the line endings pushed in its place: the document can still redo the
\* edit, the undo stack cannot
C5_Witness ==
    /\ hasFilePath
    /\ Len(commands) = 2
    /\ index = 2
    /\ commands[1].kind = "text"
    /\ commands[2].kind # "text"
    /\ docRedo # << >>
    /\ ~redoEnabled

(***************************************************************************)
(* C6: a successful load, whatever the undo stack, its index and           *)
(* isModified() were before, leaves the undo stack empty, Undo and Redo    *)
(* disabled and isModified() false.                                        *)
(***************************************************************************)
HistoryReset(w) ==
    /\ w.commands = << >>
    /\ w.index = 0
    /\ ~w.undoEnabled
    /\ ~w.redoEnabled
    /\ ~isDocumentModified(w)
    /\ ~titleMarked(w)

LoadOps == {"loadDocument", "loadDocumentFrom", "reloadDocument"}

C6_LoadResetsHistory ==
    /\ \A r \in Loads(Win, DialogPaths, Paths, LoadEncodings) :
          r.ret => HistoryReset(r.w)
    /\ ev.op \in LoadOps /\ ev.ret => HistoryReset(Win)

\* a modified file was loaded again, the changes discarded
C6_Witness ==
    /\ ev.op = "reloadDocument"
    /\ ev.ret
    /\ ev.asked = <<"discard changes?">>
    /\ HistoryReset(Win)

(***************************************************************************)
(* C7: a load of a file that cannot be opened, or of a large file when the *)
(* large-file question is answered No, returns false and leaves the whole  *)
(* window as it was; so does every other load that returns false.          *)
(***************************************************************************)
C7_AbortedLoad ==
    /\ \A p \in Paths, e \in LoadEncodings :
        \A a \in LargeAnswers(p) :
          LET r == loadDocumentFrom(Win, p, e, a)
              f == File(p)
          IN  ~f.exists \/ (f.size > LARGE_FILE_SIZE /\ a = No)
                  => ~r.ret /\ r.w = Win
    /\ \A r \in Loads(Win, DialogPaths, Paths, LoadEncodings) :
          ~r.ret => r.w = Win

\* a modified document with a file, after the load of a large file was
\* declined
C7_Witness ==
    /\ ev.op = "loadDocumentFrom"
    /\ ~ev.ret
    /\ ev.asked = <<"large file?">>
    /\ hasFilePath
    /\ isModified
    /\ commands # << >>
    /\ reloadEnabled

(***************************************************************************)
(* C8: promptForSave, and with it newDocument and closeEvent, goes on      *)
(* without asking when the document is not modified; when it is modified,  *)
(* Cancel stops the handler with nothing changed, No lets it go on with    *)
(* nothing saved, and Yes lets it go on exactly when saveDocument          *)
(* succeeds, which it does not when the Save File dialog is cancelled.     *)
(* (saveDocumentTo never fails, so no write fails.)                        *)
(***************************************************************************)
C8_SavePrompt ==
    \A response \in {Yes, No, Cancel}, dlgPath \in DialogPaths :
        LET p == promptForSave(Win, response, dlgPath)
            s == saveDocument(Win, dlgPath)
            n == newDocument(Win, response, dlgPath, win32)
            c == closeEvent(Win, response, dlgPath)
        IN  /\ ~isModified => p.ret /\ p.asked = << >> /\ p.w = Win
            /\ isModified /\ response = Cancel
                  => ~p.ret /\ p.asked = <<"save changes?">> /\ p.w = Win
            /\ isModified /\ response = No
                  => p.ret /\ p.asked = <<"save changes?">> /\ p.w = Win
            /\ isModified /\ response = Yes
                  => /\ p.ret = s.ret
                     /\ p.w = s.w
                     /\ p.ret => ~isDocumentModified(p.w)
                     /\ ~hasFilePath /\ dlgPath = NullPath
                           => ~p.ret /\ p.asked = <<"save changes?", "Save File">>
                     /\ ~saveDocumentTo(IF hasFilePath THEN m_openFilename ELSE dlgPath)
                           => ~p.ret
            /\ n.ret = p.ret
            /\ ~p.ret => n.w = Win /\ n.asked = p.asked
            /\ c.ret = p.ret
            /\ c.w = p.w

\* the window stayed open because the Save File dialog that followed the
\* answer Yes was cancelled
C8_Witness ==
    /\ ev.op = "closeEvent"
    /\ ~ev.ret
    /\ ev.asked = <<"save changes?", "Save File">>
    /\ ~closed
    /\ isModified

(***************************************************************************)
(* C9: when newDocument goes on it leaves the default document: no file,   *)
(* the title Untitled, UTF-8, the line endings of the platform, no syntax, *)
(* an empty editor, an empty undo stack, isModified() false: the window as *)
(* it was constructed.  When the save prompt is cancelled it changes       *)
(* nothing.                                                                *)
(***************************************************************************)
DefaultDocument(w) ==
    /\ w.m_openFilename = NullPath
    /\ w.m_documentTitle = "Untitled"
    /\ w.windowTitle = <<"Untitled", " - qtextpad">>
    /\ w.m_textEncoding = "UTF-8"
    /\ w.m_lineEndingMode = (IF win32 THEN CRLF ELSE LFOnly)
    /\ w.syntax = nullSyntax
    /\ w.text = << >>
    /\ w.commands = << >>
    /\ w.index = 0
    /\ ~isDocumentModified(w)
    /\ w = QTextPadWindow(win32)

C9_NewDocument ==
    /\ \A response \in {Yes, No, Cancel}, dlgPath \in DialogPaths :
          LET n == newDocument(Win, response, dlgPath, win32)
          IN  /\ n.ret => DefaultDocument(n.w)
              /\ ~n.ret => n.w = Win
              /\ isModified /\ response = Cancel => ~n.ret
    /\ ev.op = "newDocument" /\ ev.ret => DefaultDocument(Win)

\* a new document on Windows, the changes to the one before discarded
C9_Witness ==
    /\ ev.op = "newDocument"
    /\ ev.ret
    /\ ev.asked = <<"save changes?">>
    /\ win32
    /\ DefaultDocument(Win)

(***************************************************************************)
(* C10: a successful saveDocument or saveDocumentAs leaves the path saved  *)
(* to as m_openFilename and its file name as m_documentTitle, the clean    *)
(* index on the index (isModified() false) and the commands and the index  *)
(* as they were.  saveDocumentCopy, whatever it returns, leaves            *)
(* m_openFilename, m_documentTitle, the commands, the index, the clean     *)
(* index and isModified() as they were.                                    *)
(***************************************************************************)
Saved(w, path) ==
    /\ w.m_openFilename = path
    /\ w.m_documentTitle = fileName(path)
    /\ w.clean_index = w.index
    /\ ~isDocumentModified(w)
    /\ ~titleMarked(w)
    /\ w.commands = commands
    /\ w.index = index

C10_SaveVsCopy ==
    \A dlgPath \in DialogPaths :
        LET s == saveDocument(Win, dlgPath)
            a == saveDocumentAs(Win, dlgPath)
            c == saveDocumentCopy(Win, dlgPath)
        IN  /\ s.ret => Saved(s.w, IF hasFilePath THEN m_openFilename ELSE dlgPath)
            /\ a.ret => Saved(a.w, dlgPath)
            /\ c.ret <=> dlgPath # NullPath
            /\ c.w.m_openFilename = m_openFilename
            /\ c.w.m_documentTitle = m_documentTitle
            /\ c.w.commands = commands
            /\ c.w.index = index
            /\ c.w.clean_index = clean_index
            /\ isDocumentModified(c.w) = isModified

\* a modified document with a file, after a copy of it was saved
C10_Witness ==
    /\ ev.op = "saveDocumentCopy"
    /\ ev.ret
    /\ hasFilePath
    /\ isModified
    /\ commands # << >>

(***************************************************************************)
(* C11: reloadDocument asks a modified document's user whether to discard  *)
(* the changes, and on No returns false with the window as it was; on Yes, *)
(* and on a document that is not modified (which is asked nothing), it     *)
(* returns what loadDocumentFrom(m_openFilename) with no explicit encoding *)
(* returns and leaves the window that call leaves.                         *)
(***************************************************************************)
C11_ReloadAsLoad ==
    \A discardAnswer \in {Yes, No} :
        \A largeAnswer \in LargeAnswers(m_openFilename) :
            LET r == reloadDocument(Win, discardAnswer, largeAnswer)
                l == loadDocumentFrom(Win, m_openFilename, "", largeAnswer)
            IN  IF isModified /\ discardAnswer = No
                THEN /\ ~r.ret
                     /\ r.w = Win
                     /\ r.asked = <<"discard changes?">>
                ELSE /\ r.ret = l.ret
                     /\ r.w = l.w
                     /\ r.asked = (IF isModified THEN <<"discard changes?">>
                                   ELSE << >>) \o l.asked

\* a modified file whose user declined to discard the changes
C11_Witness ==
    /\ ev.op = "reloadDocument"
    /\ ~ev.ret
    /\ ev.asked = <<"discard changes?">>
    /\ isModified
    /\ hasFilePath
    /\ reloadEnabled

(***************************************************************************)
(* C12: setSyntax, with or without a file, changes the syntax, the text of *)
(* the syntax button and the checked syntax action and nothing else: not   *)
(* the undo stack, its index, its clean index, isModified(), the encoding, *)
(* the line-ending mode or the text.  An undo() or redo() leaves the       *)
(* syntax as it is.                                                        *)
(***************************************************************************)
C12_SyntaxNotUndoable ==
    /\ \A syn \in Syntaxes :
          LET w == setSyntax(Win, syn)
          IN  /\ w.syntax = syn
              /\ w = [Win EXCEPT !.syntax = w.syntax,
                                 !.syntaxButton = w.syntaxButton,
                                 !.syntaxChecked = w.syntaxChecked]
              /\ isDocumentModified(w) = isModified
              /\ QUndoStack_undo(w).syntax = syn
              /\ QUndoStack_redo(w).syntax = syn
    /\ QUndoStack_undo(Win).syntax = syntax
    /\ QUndoStack_redo(Win).syntax = syntax

\* a file that loaded with no syntax has one, with a command undone on its
\* undo stack
C12_Witness ==
    /\ m_openFilename = P_report
    /\ File(P_report).magic = nullSyntax
    /\ File(P_report).byName = nullSyntax
    /\ syntax = "Python"
    /\ syntaxChecked = "Python"
    /\ canRedo
    /\ index = 0

(***************************************************************************)
(* C13: setEncoding with a name no codec knows records the name as         *)
(* m_textEncoding, shows it as invalid on the encoding button, leaves no   *)
(* encoding action checked and changes nothing else.  changeEncoding with  *)
(* such a name on a document with a file pushes it as a command like any   *)
(* other, and an undo() right after restores the encoding from before.     *)
(***************************************************************************)
C13_InvalidEncoding ==
    \A name \in EncodingNames :
        ~codecForName(name).ok =>
            LET s == setEncoding(Win, name)
                c == changeEncoding(Win, name)
                u == QUndoStack_undo(c)
            IN  /\ s.m_textEncoding = name
                /\ s.encodingButton = <<"Invalid", name>>
                /\ s.encodingChecked = NoAction
                /\ s = [Win EXCEPT !.m_textEncoding = s.m_textEncoding,
                                   !.encodingButton = s.encodingButton,
                                   !.encodingChecked = s.encodingChecked]
                /\ c.m_textEncoding = name
                /\ c.encodingButton = <<"Invalid", name>>
                /\ hasFilePath =>
                      /\ c.index = index + 1
                      /\ c.commands = Append(SubSeq(commands, 1, index),
                                             [kind |-> "encoding",
                                              old |-> m_textEncoding,
                                              new |-> name])
                      /\ u.m_textEncoding = m_textEncoding
                      /\ u.index = index

\* the encoding of a file was changed to a name no codec knows and the
\* change undone
C13_Witness ==
    /\ ev.op = "undo"
    /\ hasFilePath
    /\ canRedo
    /\ commands[index + 1].kind = "encoding"
    /\ ~codecForName(commands[index + 1].new).ok
    /\ m_textEncoding = commands[index + 1].old
    /\ codecForName(m_textEncoding).ok
    /\ encodingButton = <<m_textEncoding>>

(***************************************************************************)
(* C14: after a successful loadDocumentFrom(path, explicit encoding) the   *)
(* encoding is the name of the codec the explicit encoding names, when one *)
(* is given and a codec has that name, and else the name of the codec      *)
(* detected; the text is the file's bytes after the byte order mark,       *)
(* decoded by that codec.  The name recorded is the codec's own            *)
(* (QTextCodec::name), which for an alias is not the name given.           *)
(***************************************************************************)
explicitValid(e) == e # "" /\ codecForName(e).ok

C14_LoadEncoding ==
    \A p \in Paths, e \in LoadEncodings :
        \A a \in LargeAnswers(p) :
            LET r == loadDocumentFrom(Win, p, e, a)
                f == File(p)
                codec == IF explicitValid(e) THEN codecForName(e).codec
                         ELSE f.textCodec
            IN  r.ret =>
                  /\ r.w.m_textEncoding = codec
                  /\ r.w.encodingButton = <<codec>>
                  /\ r.w.text = toUnicode(codec, SubSeq(f.bytes, f.bomOffset + 1,
                                                        Len(f.bytes)))

\* C14 as stated: after a successful load the encoding is the explicit
\* encoding itself when one is given and a codec has that name, and else
\* the one detected
C14_AsStated ==
    \A p \in Paths, e \in LoadEncodings :
        \A a \in LargeAnswers(p) :
            LET r == loadDocumentFrom(Win, p, e, a)
            IN  r.ret =>
                  r.w.m_textEncoding = (IF explicitValid(e) THEN e
                                        ELSE File(p).textCodec)

\* a file detected as one encoding was loaded with an explicit other one
C14_Witness ==
    /\ ev.op = "loadDocumentFrom"
    /\ ev.ret
    /\ m_textEncoding = "ISO-8859-1"
    /\ File(m_openFilename).textCodec = "UTF-8"
    /\ text = toUnicode("ISO-8859-1", <<195, 169>>)

(***************************************************************************)
(* C15: after a successful load the syntax is the one found from the       *)
(* file's content when there is one, whatever the file name would give;    *)
(* else the one found from the file name; else none (Plain Text), whatever *)
(* the syntax was before the load.  The syntax button and the checked      *)
(* syntax action show it.                                                  *)
(***************************************************************************)
C15_SyntaxPrecedence ==
    \A r \in {loadDocumentFrom(Win, p, e, Yes) : p \in Paths, e \in LoadEncodings}
             \cup {loadDocument(Win, p, Yes) : p \in DialogPaths}
             \cup {reloadDocument(Win, Yes, Yes)} :
        r.ret =>
            LET f == File(r.w.m_openFilename)
                expected == IF f.magic # nullSyntax THEN f.magic ELSE f.byName
            IN  /\ r.w.syntax = expected
                /\ r.w.syntaxChecked = expected
                /\ r.w.syntaxButton = (IF expected = nullSyntax THEN "Plain Text"
                                       ELSE expected)

\* a file whose content and name give different syntaxes was loaded
C15_Witness ==
    /\ ev.op \in LoadOps
    /\ ev.ret
    /\ File(m_openFilename).magic = "Python"
    /\ File(m_openFilename).byName = "Troff"
    /\ syntax = "Python"
    /\ syntaxButton = "Python"

(***************************************************************************)
(* C16: the load of a file of at most LARGE_FILE_SIZE (10 MiB) bytes asks  *)
(* nothing and succeeds; the load of a file of LARGE_FILE_SIZE + 1 bytes   *)
(* or more asks the large-file question, and succeeds exactly when the     *)
(* answer is Yes.                                                          *)
(***************************************************************************)
C16_LargeFileGate ==
    /\ LARGE_FILE_SIZE = 10485760
    /\ \A p \in Paths, e \in LoadEncodings, a \in {Yes, No} :
          LET r == loadDocumentFrom(Win, p, e, a)
              f == File(p)
          IN  f.exists =>
                /\ f.size <= LARGE_FILE_SIZE => r.ret /\ r.asked = << >>
                /\ f.size >= LARGE_FILE_SIZE + 1 =>
                      /\ r.asked = <<"large file?">>
                      /\ r.ret <=> a = Yes
                      /\ a = No => r.w = Win

\* a file of exactly LARGE_FILE_SIZE bytes was loaded and nothing asked
C16_Witness ==
    /\ ev.op = "loadDocumentFrom"
    /\ ev.ret
    /\ ev.asked = << >>
    /\ File(m_openFilename).size = LARGE_FILE_SIZE
    /\ File(P_big).size = LARGE_FILE_SIZE + 1

(***************************************************************************)
(* C17: saveDocumentTo(p) followed by loadDocumentFrom(p) with no explicit *)
(* encoding succeeds and leaves the text, the line-ending mode and the     *)
(* encoding that were current at the save.  (saveDocumentTo writes         *)
(* nothing, so the load reads what was on disk before, if anything.)       *)
(***************************************************************************)
C17_RoundTrip ==
    \A p \in Paths :
        saveDocumentTo(p) =>
            \A a \in LargeAnswers(p) :
                LET l == loadDocumentFrom(Win, p, "", a)
                IN  a = Yes =>
                      /\ l.ret
                      /\ l.w.text = text
                      /\ l.w.m_lineEndingMode = m_lineEndingMode
                      /\ l.w.m_textEncoding = m_textEncoding

(***************************************************************************)
(* C18: in every reachable state the window title is m_documentTitle       *)
(* followed by the application suffix, with "* " in front exactly when     *)
(* isModified() is true; so it is after every handler, since every         *)
(* handler leaves a reachable state.                                       *)
(***************************************************************************)
C18_TitleSync ==
    /\ windowTitle = (IF isModified
                      THEN <<"* ", m_documentTitle, " - qtextpad">>
                      ELSE <<m_documentTitle, " - qtextpad">>)
    /\ m_documentTitle = (IF hasFilePath THEN fileName(m_openFilename)
                          ELSE "Untitled")

\* a file saved with one command on the undo stack, a second command pushed
\* and undone: the title lost its marker on the way back
C18_Witness ==
    /\ hasFilePath
    /\ Len(commands) = 2
    /\ index = 1
    /\ clean_index = 1
    /\ windowTitle = <<fileName(m_openFilename), " - qtextpad">>

(***************************************************************************)
(* C19: in every reachable state the line-ending label and the checked     *)
(* line-ending action are those of m_lineEndingMode; the encoding button   *)
(* names m_textEncoding (as invalid when no codec has that name); and the  *)
(* checked encoding action, if there is one, is the one of m_textEncoding, *)
(* and there is one when the menu has an action of that name.  So it is    *)
(* after every change of either, pushed or not, with any name.             *)
(***************************************************************************)
modeLabel(mode) ==
    CASE mode = CROnly -> "CR"
      [] mode = LFOnly -> "LF"
      [] mode = CRLF -> "CRLF"

IndicatorsSync(w) ==
    /\ w.m_lineEndingMode \in LineEndingModes
    /\ w.crlfLabel = modeLabel(w.m_lineEndingMode)
    /\ w.lineEndingChecked = w.m_lineEndingMode
    /\ w.encodingButton = (IF codecForName(w.m_textEncoding).ok
                           THEN <<w.m_textEncoding>>
                           ELSE <<"Invalid", w.m_textEncoding>>)
    /\ w.encodingChecked \in {NoAction, w.m_textEncoding}
    /\ w.m_textEncoding \in MenuEncodings => w.encodingChecked = w.m_textEncoding

C19_IndicatorSync ==
    /\ IndicatorsSync(Win)
    /\ \A e \in EncodingNames : IndicatorsSync(changeEncoding(Win, e))
    /\ \A m \in LineEndingModes : IndicatorsSync(changeLineEndingMode(Win, m))
    /\ IndicatorsSync(nextLineEndingMode(Win))
    /\ IndicatorsSync(QUndoStack_undo(Win))
    /\ IndicatorsSync(QUndoStack_redo(Win))

\* the line endings of a file were changed and the change undone: label and
\* checked action are back with the mode
C19_Witness ==
    /\ hasFilePath
    /\ canRedo
    /\ commands[index + 1].kind = "lineEnding"
    /\ commands[index + 1].old # commands[index + 1].new
    /\ m_lineEndingMode = commands[index + 1].old
    /\ lineEndingChecked = commands[index + 1].old
    /\ crlfLabel = modeLabel(commands[index + 1].old)

(***************************************************************************)
(* C20: nextLineEndingMode does what changeLineEndingMode does with LF for *)
(* CR, CRLF for LF and CR for CRLF; three of them in a row leave the       *)
(* line-ending mode they started from; with a file each leaves one command *)
(* more than were below the index, a line-ending command, and without a    *)
(* file each leaves the undo stack as it was.                              *)
(***************************************************************************)
C20_CycleLineEnding ==
    LET n1 == nextLineEndingMode(Win)
        n2 == nextLineEndingMode(n1)
        n3 == nextLineEndingMode(n2)
    IN  /\ n1 = changeLineEndingMode(Win, nextMode(m_lineEndingMode))
        /\ n1.m_lineEndingMode = nextMode(m_lineEndingMode)
        /\ n2.m_lineEndingMode = nextMode(nextMode(m_lineEndingMode))
        /\ n3.m_lineEndingMode = m_lineEndingMode
        /\ {m_lineEndingMode, n1.m_lineEndingMode, n2.m_lineEndingMode}
              = LineEndingModes
        /\ hasFilePath =>
              /\ PushedOne(n1, "lineEnding")
              /\ n2.index = index + 2 /\ Len(n2.commands) = index + 2
              /\ n3.index = index + 3 /\ Len(n3.commands) = index + 3
              /\ \A i \in (index + 1)..(index + 3) :
                    /\ n3.commands[i].kind = "lineEnding"
                    /\ n3.commands[i].new = nextMode(n3.commands[i].old)
        /\ ~hasFilePath =>
              \A n \in {n1, n2, n3} :
                  /\ n.commands = commands
                  /\ n.index = index
                  /\ n.clean_index = clean_index

\* the line endings of a file were cycled twice: LF to CRLF to CR
C20_Witness ==
    /\ hasFilePath
    /\ Len(commands) = 2
    /\ index = 2
    /\ commands[1] = [kind |-> "lineEnding", old |-> LFOnly, new |-> CRLF]
    /\ commands[2] = [kind |-> "lineEnding", old |-> CRLF, new |-> CROnly]
    /\ m_lineEndingMode = CROnly

(***************************************************************************)
(* C21: a document with a file that is not modified has the text, the      *)
(* encoding and the line-ending mode that the last successful load or      *)
(* save (saveDocument, saveDocumentAs) left.                               *)
(***************************************************************************)
C21_CleanIsSynced ==
    hasFilePath /\ ~isModified => Snapshot(Win) = synced

(***************************************************************************)
(* C22: QUndoStack::undo with the index at 0 and QUndoStack::redo with the *)
(* index at the number of commands leave the window as it is: the          *)
(* commands, the index, the clean index (isModified()), the encoding, the  *)
(* line-ending mode and the text.                                          *)
(***************************************************************************)
C22_UndoRedoAtEnds ==
    /\ index = 0 => QUndoStack_undo(Win) = Win
    /\ index = Len(commands) => QUndoStack_redo(Win) = Win
    /\ ev.op \in {"undo", "redo"} /\ commands = << >> => index = 0

\* Undo was triggered on a saved document with nothing to undo
C22_Witness ==
    /\ ev.op = "undo"
    /\ commands = << >>
    /\ index = 0
    /\ hasFilePath

(***************************************************************************)
(* C23: in every state the Undo action is enabled exactly when the index   *)
(* is above 0 and the Redo action exactly when the index is below the      *)
(* number of commands; every push, undo and redo leaves them so; and a     *)
(* load or a newDocument that went through leaves both disabled.           *)
(***************************************************************************)
ActionsTrack(w) ==
    /\ w.undoEnabled = (w.index > 0)
    /\ w.redoEnabled = (w.index < Len(w.commands))

C23_UndoRedoEnabled ==
    /\ ActionsTrack(Win)
    /\ \A w \in Pushes(Win) \cup {QUndoStack_undo(Win), QUndoStack_redo(Win)} :
          ActionsTrack(w)
    /\ \A r \in Loads(Win, SpecDialogPaths, {P_report}, {""})
                    \cup NewDocuments(Win, SpecDialogPaths) :
          r.ret => ~r.w.undoEnabled /\ ~r.w.redoEnabled /\ ActionsTrack(r.w)

\* one command done and one undone: both actions enabled
C23_Witness ==
    /\ index = 1
    /\ Len(commands) = 2
    /\ undoEnabled
    /\ redoEnabled

(***************************************************************************)
(* C24: a loadDocumentFrom that returns true leaves, whatever the          *)
(* line-ending mode was, the mode FileDetection::detect reports for the    *)
(* file (shown in the label and the menu), the path as m_openFilename and  *)
(* the file name of the path as m_documentTitle and in the window title.   *)
(***************************************************************************)
C24_LoadLineEndingAndPath ==
    \A filename \in Paths, textEncoding \in LoadEncodings, largeAnswer \in {Yes, No} :
        LET r == loadDocumentFrom(Win, filename, textEncoding, largeAnswer)
        IN  r.ret =>
              /\ r.w.m_lineEndingMode = File(filename).lineEndings
              /\ r.w.crlfLabel = modeLabel(File(filename).lineEndings)
              /\ r.w.lineEndingChecked = File(filename).lineEndings
              /\ r.w.m_openFilename = filename
              /\ r.w.m_documentTitle = fileName(filename)
              /\ r.w.windowTitle = <<fileName(filename), " - qtextpad">>

\* the large file with CR line endings was loaded
C24_Witness ==
    /\ ev.op = "loadDocumentFrom"
    /\ ev.ret
    /\ m_openFilename = P_big
    /\ m_documentTitle = "big.1"
    /\ m_lineEndingMode = CROnly
    /\ File(P_big).lineEndings = CROnly

(***************************************************************************)
(* C25: the decode loop ends; and once it has ended there is one piece per *)
(* block of DECODE_BLOCK_SIZE bytes of what follows the BOM offset, the    *)
(* i-th piece is what the decoder makes of the i-th block after the blocks *)
(* before it, and the pieces joined in order, the text handed to           *)
(* setPlainText, are what one decoder makes of all the bytes after the BOM *)
(* offset taken at once.                                                   *)
(***************************************************************************)
afterBom(d) == SubSeq(d.bytes, d.bomOffset + 1, Len(d.bytes))

numBlocks(d) == (Len(afterBom(d)) + d.blockSize - 1) \div d.blockSize

block(d, i) ==
    SubSeq(afterBom(d), (i - 1) * d.blockSize + 1,
           IF i * d.blockSize < Len(afterBom(d))
           THEN i * d.blockSize ELSE Len(afterBom(d)))

\* what the decoder holds back after the first i blocks
RECURSIVE heldAfter(_, _)
heldAfter(d, i) ==
    IF i = 0 THEN << >>
    ELSE decoder_toUnicode(d.codec, heldAfter(d, i - 1), block(d, i)).remaining

DecodedInOrder(d) ==
    /\ Len(d.pieces) = numBlocks(d)
    /\ \A i \in 1..numBlocks(d) :
          d.pieces[i] = decoder_toUnicode(d.codec, heldAfter(d, i - 1), block(d, i)).out
    /\ join(d.pieces) = decoder_toUnicode(d.codec, << >>, afterBom(d)).out

C25_ChunkedDecode ==
    /\ <>(decode.pc = "done")
    /\ [](decode.pc = "done" => DecodedInOrder(decode))

\* a file with a BOM and a two-byte sequence, read a byte at a time: the
\* sequence came in two blocks and was decoded as one character
C25_Witness ==
    /\ decode.pc = "done"
    /\ decode.codec = "UTF-8"
    /\ decode.bytes = UTF8_BOM \o <<97, 195, 169>>
    /\ decode.blockSize = 1
    /\ decode.pieces = <<<<97>>, << >>, <<233>>>>

(***************************************************************************)
(* C26: closeEvent on a document that is not modified accepts the event    *)
(* and asks nothing.  On a modified document it asks whether to save:      *)
(* Cancel ignores the event and No accepts it, both with the window as it  *)
(* was; Yes accepts it exactly when saveDocument returns true, and         *)
(* otherwise the event is ignored and the window is as it was.  The window *)
(* closes exactly when the event is accepted.                              *)
(***************************************************************************)
C26_CloseGate ==
    /\ \A response \in {Yes, No, Cancel}, dlgPath \in DialogPaths :
          LET c == closeEvent(Win, response, dlgPath)
              s == saveDocument(Win, dlgPath)
          IN  /\ ~isModified => c.ret /\ c.asked = << >> /\ c.w = Win
              /\ isModified =>
                    /\ c.asked # << >> /\ c.asked[1] = "save changes?"
                    /\ response = Cancel => ~c.ret /\ c.w = Win
                    /\ response = No => c.ret /\ c.w = Win
                    /\ response = Yes =>
                          /\ c.ret = s.ret
                          /\ c.w = s.w
                          /\ ~c.ret => c.w = Win
                          /\ c.ret => ~isDocumentModified(c.w)
    /\ ev.op = "closeEvent" => closed = ev.ret
    /\ closed => ev.op = "closeEvent"

\* the close of a modified document without a file went through the save
\* prompt and the Save File dialog, and was accepted
C26_Witness ==
    /\ ev.op = "closeEvent"
    /\ ev.ret
    /\ ev.asked = <<"save changes?", "Save File">>
    /\ closed
    /\ ~isModified
    /\ hasFilePath

(***************************************************************************)
(* C27: every edit the document reports puts one text command on the undo  *)
(* stack, and in every state the text commands below the index are as many *)
(* as the document itself can undo and those above it as many as the       *)
(* document itself can redo.                                               *)
(***************************************************************************)
textCommands(w, from, to) ==
    Cardinality({i \in from..to : w.commands[i].kind = "text"})

C27_Lockstep ==
    /\ \A t \in Edits(text) : PushedOne(undoCommandAdded(Win, t), "text")
    /\ textCommands(Win, 1, index) = Len(docUndo)
    /\ textCommands(Win, index + 1, Len(commands)) = Len(docRedo)

(***************************************************************************)
(* C28: newDocument, loadDocument, reloadDocument and closeEvent, started  *)
(* on a modified document, change the window (or, for closeEvent, accept   *)
(* the close) only after the question whether to save or to discard the    *)
(* changes was asked, as the first dialog.                                 *)
(***************************************************************************)
Confirmations == {"save changes?", "discard changes?"}

ConfirmedFirst(r) == r.asked # << >> /\ r.asked[1] \in Confirmations

C28_AskBeforeReplace ==
    isModified =>
        /\ \A r \in NewDocuments(Win, DialogPaths) : r.w # Win => ConfirmedFirst(r)
        /\ \A dlgPath \in DialogPaths, largeAnswer \in {Yes, No} :
              LET r == loadDocument(Win, dlgPath, largeAnswer)
              IN  r.w # Win => ConfirmedFirst(r)
        /\ \A discardAnswer \in {Yes, No}, largeAnswer \in {Yes, No} :
              LET r == reloadDocument(Win, discardAnswer, largeAnswer)
              IN  reloadEnabled /\ r.w # Win => ConfirmedFirst(r)
        /\ \A a \in SaveAnswers(DialogPaths) :
              LET r == closeEvent(Win, a[1], a[2])
              IN  r.w # Win \/ r.ret => ConfirmedFirst(r)

(***************************************************************************)
(* C29: a push made with the index below the clean index loses the clean   *)
(* index (cleanIndex() is -1); with the clean index lost the document is   *)
(* modified, at whatever index, and every push, undo and redo leaves it    *)
(* lost.                                                                   *)
(***************************************************************************)
CleanLost(w) == w.clean_index = -1 /\ isDocumentModified(w) /\ titleMarked(w)

C29_CleanLost ==
    /\ clean_index \in -1..Len(commands)
    /\ clean_index > index => \A w \in Pushes(Win) : CleanLost(w)
    /\ clean_index = -1 =>
          /\ CleanLost(Win)
          /\ \A w \in Pushes(Win) \cup {QUndoStack_undo(Win), QUndoStack_redo(Win)} :
                CleanLost(w)

\* saved at index 1, undone, and a new command pushed: the index is 1
\* again and the document is modified
C29_Witness ==
    /\ hasFilePath
    /\ clean_index = -1
    /\ index = 1
    /\ Len(commands) = 1
    /\ isModified

(***************************************************************************)
(* C30: an undo or a redo of an encoding command leaves the line-ending    *)
(* mode and the text as they are, one of a line-ending command the         *)
(* encoding and the text, one of a text command the encoding and the       *)
(* line-ending mode; and none changes m_openFilename, m_documentTitle, the *)
(* syntax or the commands.  This is so for the window as it is and with    *)
(* one more command of any kind pushed, all the way down the undo stack    *)
(* and up again.                                                           *)
(***************************************************************************)
FrameKept(a, b, kind) ==
    /\ b.m_openFilename = a.m_openFilename
    /\ b.m_documentTitle = a.m_documentTitle
    /\ b.syntax = a.syntax
    /\ b.syntaxButton = a.syntaxButton
    /\ b.syntaxChecked = a.syntaxChecked
    /\ b.commands = a.commands
    /\ kind # "encoding" =>
          /\ b.m_textEncoding = a.m_textEncoding
          /\ b.encodingButton = a.encodingButton
          /\ b.encodingChecked = a.encodingChecked
    /\ kind # "lineEnding" =>
          /\ b.m_lineEndingMode = a.m_lineEndingMode
          /\ b.crlfLabel = a.crlfLabel
          /\ b.lineEndingChecked = a.lineEndingChecked
    /\ kind # "text" => b.text = a.text

UndoFrame(w) ==
    w.index > 0 => FrameKept(w, QUndoStack_undo(w), w.commands[w.index].kind)

RedoFrame(w) ==
    w.index < Len(w.commands) =>
        FrameKept(w, QUndoStack_redo(w), w.commands[w.index + 1].kind)

\* w undone n times
RECURSIVE undone(_, _)
undone(w, n) == IF n = 0 THEN w ELSE QUndoStack_undo(undone(w, n - 1))

C30_KindsApart ==
    \A w \in {Win} \cup Pushes(Win) :
        \A n \in 0..Len(w.commands) :
            UndoFrame(undone(w, n)) /\ RedoFrame(undone(w, n))

\* an encoding command and, above it, a text command that was undone: the
\* encoding is the one the first command set
C30_Witness ==
    /\ Len(commands) = 2
    /\ commands[1].kind = "encoding"
    /\ commands[2].kind = "text"
    /\ index = 1
    /\ m_textEncoding = commands[1].new
    /\ m_textEncoding # commands[1].old
    /\ docRedo # << >>

(***************************************************************************)
(* C31: in every state an enabled Reload action comes with a file path, so *)
(* reloadDocument, which the action triggers, never hands an empty path to *)
(* loadDocumentFrom; and every handler that loads, saves or makes a new    *)
(* document leaves it so.                                                  *)
(***************************************************************************)
ReloadHasFile(w) == w.reloadEnabled => w.m_openFilename # NullPath

C31_ReloadHasFile ==
    /\ ReloadHasFile(Win)
    /\ \A r \in Loads(Win, DialogPaths, {P_idle}, {""})
                    \cup NewDocuments(Win, DialogPaths) :
          ReloadHasFile(r.w)
    /\ \A dlgPath \in DialogPaths :
          /\ ReloadHasFile(saveDocument(Win, dlgPath).w)
          /\ ReloadHasFile(saveDocumentAs(Win, dlgPath).w)
    /\ ev.op = "reloadDocument" => hasFilePath

\* Reload was triggered on an unmodified document with a file, and loaded
\* that file again
C31_Witness ==
    /\ ev.op = "reloadDocument"
    /\ ev.ret
    /\ ev.asked = << >>
    /\ reloadEnabled
    /\ hasFilePath

(***************************************************************************)
(* C32: in every state a document with a file path has the Reload action   *)
(* enabled, and a saveDocument or saveDocumentAs that returns true leaves  *)
(* it enabled.                                                             *)
(***************************************************************************)
C32_FileHasReload ==
    /\ hasFilePath => reloadEnabled
    /\ \A dlgPath \in DialogPaths :
          /\ saveDocument(Win, dlgPath).ret => saveDocument(Win, dlgPath).w.reloadEnabled
          /\ saveDocumentAs(Win, dlgPath).ret =>
                saveDocumentAs(Win, dlgPath).w.reloadEnabled

(***************************************************************************)
(* C33: on a document with a file, changeEncoding with the encoding it has *)
(* and changeLineEndingMode with the mode it has push one command all the  *)
(* same and leave the document modified, with the encoding, the mode and   *)
(* the text as they were; the undo of that command leaves them as they     *)
(* were, too, the index where it was, and a document that was not modified *)
(* not modified again.                                                     *)
(***************************************************************************)
SameValues(w) ==
    /\ Metadata(w) = Metadata(Win)
    /\ w.encodingButton = encodingButton
    /\ w.encodingChecked = encodingChecked
    /\ w.crlfLabel = crlfLabel
    /\ w.lineEndingChecked = lineEndingChecked
    /\ w.text = text

PushedForNothing(w, kind) ==
    /\ PushedOne(w, kind)
    /\ w.commands[index + 1].old = w.commands[index + 1].new
    /\ isDocumentModified(w)
    /\ titleMarked(w)
    /\ SameValues(w)
    /\ LET u == QUndoStack_undo(w)
       IN  /\ SameValues(u)
           /\ u.index = index
           /\ isDocumentModified(u) = isModified

C33_SameValueCommand ==
    hasFilePath =>
        /\ PushedForNothing(changeEncoding(Win, m_textEncoding), "encoding")
        /\ PushedForNothing(changeLineEndingMode(Win, m_lineEndingMode), "lineEnding")

\* the encoding the document already had was chosen again: an encoding
\* command from a name to the same name is on the stack and the document
\* is modified
C33_Witness ==
    /\ hasFilePath
    /\ index = 1
    /\ Len(commands) = 1
    /\ commands[1].kind = "encoding"
    /\ commands[1].old = commands[1].new
    /\ m_textEncoding = commands[1].new
    /\ clean_index = 0
    /\ isModified

(***************************************************************************)
(* C34: every load that returns true leaves as m_textEncoding a name       *)
(* KCharsets resolves and the encoding button without the Invalid mark,    *)
(* whatever explicit encoding it was given and whatever the encoding was   *)
(* before, a name no codec knows included.                                 *)
(***************************************************************************)
EncodingValid(w) ==
    /\ codecForName(w.m_textEncoding).ok
    /\ w.encodingButton = <<w.m_textEncoding>>

C34_LoadedEncodingValid ==
    /\ \A r \in Loads(Win, DialogPaths, Paths, LoadEncodings) :
          r.ret => EncodingValid(r.w)
    /\ ev.op \in LoadOps /\ ev.ret => EncodingValid(Win)

\* the encoding in force is a name no codec knows, shown as invalid, and a
\* load with that name as the explicit encoding goes through and leaves
\* the detected codec
C34_Witness ==
    /\ m_textEncoding = "bogus"
    /\ encodingButton = <<"Invalid", "bogus">>
    /\ LET r == loadDocumentFrom(Win, P_idle, "bogus", Yes)
       IN  /\ r.ret
           /\ r.w.m_textEncoding = "ISO-8859-1"
           /\ r.w.encodingButton = <<"ISO-8859-1">>

====
